---- MODULE Spec2Model ----
(***************************************************************************)
(* Request pipeline of the Email Validator Python SDK                      *)
(* (packages/sdk-python/email_validator_sdk): input validation, the retry  *)
(* loop of EmailValidator._request / AsyncEmailValidator._request, the     *)
(* classification of responses and transport failures, and the session     *)
(* owned by the client.                                                    *)
(***************************************************************************)
EXTENDS Integers, Sequences, FiniteSets, TLC

VARIABLES
    client,         \* "sync" (EmailValidator) or "async" (AsyncEmailValidator)
    max_retries,    \* self.max_retries
    json_error,     \* what requests' Response.json() raises on a malformed body
    session,        \* self._session: 0 is None, otherwise the id of a session object
    closed,         \* ids of the session objects that have been closed
    callers,        \* the call slots that issue calls on the client
    pc,             \* per call: position of the call
    sess,           \* per call: the local `session` of _request (0 before it is read)
    attempt,        \* per call: the loop variable `attempt`
    last_error,     \* per call: the local `last_error`
    result,         \* per call: what the call returned or raised
    n_transport,    \* per call: transport invocations made by the call
    sleeps,         \* per call: the `attempt` arguments of the backoff sleeps made
    trace,          \* per call: [type, status] of every transport outcome received
    api_key,        \* self.api_key: {} is None, otherwise {the key}
    headers,        \* per session object: the headers it adds to every request
    issued,         \* per call: the headers of the call's session when it was issued
    sent,           \* per call: the headers of every request the call has sent
    settings,       \* self.base_url, self.timeout and self.retry_delay
    eval            \* a call of a function of utils.py or types.py evaluated on its
                    \* own: its arguments and, once it is over, its outcome

vars == <<client, max_retries, json_error, session, closed, callers, pc, sess,
          attempt, last_error, result, n_transport, sleeps, trace, api_key,
          headers, issued, sent, settings, eval>>

\* what no step of the request pipeline changes
config == <<client, max_retries, json_error, callers, api_key, settings, eval>>

\* the variables of the request pipeline
pipeline == <<client, max_retries, json_error, session, closed, callers, pc, sess,
              attempt, last_error, result, n_transport, sleeps, trace, api_key,
              headers, issued, sent, settings>>

(***************************************************************************)
(* Bounds of the model.                                                    *)
(***************************************************************************)
MaxRetries == 2
MaxSessions == 2
MantissaBits == 5
MaxBackoffAttempt == 3

CallIds == {"c1", "c2"}

(***************************************************************************)
(* Python values.  Optional[int] is a set with at most one element.        *)
(***************************************************************************)
NoneInt == {}
SomeInt(n) == {n}

PyNone == [type |-> "NoneType"]
PyInt(n) == [type |-> "int", v |-> n]
PyStr(s) == [type |-> "str", v |-> s]
PyList(n) == [type |-> "list", len |-> n]
\* a list given with its entries
PyListOf(items) == [type |-> "list", len |-> Len(items), items |-> items]

\* bool(value): None, 0, "" and [] are falsy
Truthy(value) ==
    CASE value.type = "NoneType" -> FALSE
      [] value.type = "int" -> value.v # 0
      [] value.type = "str" -> Len(value.v) > 0
      [] value.type = "list" -> value.len > 0

(***************************************************************************)
(* exceptions.py: the SDK's exception classes, and the foreign exception   *)
(* classes that reach the except clauses of _request.                      *)
(***************************************************************************)
NoDetails == [form |-> "none", of |-> ""]

Exc(kind, message, code, status_code, details, retry_after) ==
    [kind |-> kind, message |-> message, code |-> code, status_code |-> status_code,
     details |-> details, retry_after |-> retry_after]

NoError == Exc("None", "", "", NoneInt, NoDetails, NoneInt)

EmailValidatorError(message, code, status_code, details) ==
    Exc("EmailValidatorError", message, code, status_code, details, NoneInt)

ValidationError(message) ==
    Exc("ValidationError", message, "VALIDATION_ERROR", SomeInt(400), NoDetails, NoneInt)

AuthenticationError ==
    Exc("AuthenticationError", "Invalid or missing API key", "AUTHENTICATION_ERROR",
        SomeInt(401), NoDetails, NoneInt)

RateLimitError(retry_after) ==
    Exc("RateLimitError", "Rate limit exceeded", "RATE_LIMIT_ERROR", SomeInt(429),
        NoDetails, retry_after)

NetworkError(message) ==
    Exc("NetworkError", message, "NETWORK_ERROR", NoneInt, NoDetails, NoneInt)

SDKTimeoutError ==
    Exc("SDKTimeoutError", "Request timed out", "TIMEOUT_ERROR", NoneInt, NoDetails, NoneInt)

\* an exception of a class that does not belong to the SDK
Foreign(kind) == Exc(kind, kind, "", NoneInt, NoDetails, NoneInt)

\* the classes an exception of class `kind` is an instance of
Bases(kind) ==
    CASE kind = "EmailValidatorError" -> {"EmailValidatorError", "Exception"}
      [] kind \in {"ValidationError", "AuthenticationError", "RateLimitError",
                   "NetworkError", "SDKTimeoutError"} ->
            {kind, "EmailValidatorError", "Exception"}
      [] kind = "requests.Timeout" -> {kind, "RequestException", "Exception"}
      [] kind = "requests.ConnectionError" -> {kind, "RequestException", "Exception"}
      [] kind = "requests.JSONDecodeError" ->
            {kind, "RequestException", "ValueError", "Exception"}
      [] kind = "asyncio.TimeoutError" -> {kind, "Exception"}
      [] kind = "aiohttp.ClientConnectionError" -> {kind, "ClientError", "Exception"}
      [] kind = "aiohttp.ContentTypeError" -> {kind, "ClientError", "Exception"}
      [] kind = "json.JSONDecodeError" -> {kind, "ValueError", "Exception"}
      [] kind = "ValueError" -> {kind, "Exception"}
      [] kind = "RuntimeError" -> {kind, "Exception"}
      [] OTHER -> {kind}

IsInstance(exc, class) == class \in Bases(exc.kind)

(***************************************************************************)
(* utils.py                                                                *)
(***************************************************************************)
\* mutant of is_retryable_status: every error status is retryable (>= 400 for >= 500)
is_retryable_status_From400(status_code) ==
    IF status_code = NoneInt
    THEN TRUE
    ELSE \E s \in status_code : s >= 400

\* mutant of is_retryable_status: 408 is not retryable
is_retryable_status_No408(status_code) ==
    IF status_code = NoneInt
    THEN TRUE
    ELSE \E s \in status_code : s >= 500 \/ s = 429

\* is_retryable_status(status_code): the argument is an Optional[int]
is_retryable_status(status_code) ==
    IF status_code = NoneInt
    THEN TRUE
    ELSE \E s \in status_code : s >= 500 \/ s = 429 \/ s = 408

\* the characters the pattern class \s matches
Whitespace == {" ", "\t", "\n", "\r"}

\* [^\s@]+ : a non-empty run of characters that are neither whitespace nor "@"
PlainRun(s, from, to) ==
    /\ from <= to
    /\ \A i \in from..to : s[i] \notin Whitespace /\ s[i] # "@"

\* ^[^\s@]+@[^\s@]+\.[^\s@]+ matched from the start of s up to position `end`
MatchesUpTo(s, end) ==
    \E at \in 1..end :
        /\ s[at] = "@"
        /\ PlainRun(s, 1, at - 1)
        /\ \E dot \in (at + 1)..end :
              /\ s[dot] = "."
              /\ PlainRun(s, at + 1, dot - 1)
              /\ PlainRun(s, dot + 1, end)

\* mutant of is_valid_email_format: the pattern ^\S+$, which asks for no "@" or "."
is_valid_email_format_NoAt(email) ==
    /\ Len(email) > 0
    /\ \A i \in 1..Len(email) : email[i] \notin Whitespace

\* is_valid_email_format(email): re.match of the pattern; "$" matches at the end of
\* the string and also just before a newline that ends the string
is_valid_email_format(email) ==
    \/ MatchesUpTo(email, Len(email))
    \/ /\ Len(email) > 0
       /\ email[Len(email)] = "\n"
       /\ MatchesUpTo(email, Len(email) - 1)

(***************************************************************************)
(* Python floats, with a significand of MantissaBits bits in place of the   *)
(* 53 of a double.  A float is held as a whole number of ticks of           *)
(* 2^-FractionBits, fine enough for every value that get_backoff_delay      *)
(* computes; every operation rounds its exact result to the nearest float,  *)
(* ties to the even significand.                                            *)
(***************************************************************************)
FractionBits == 2 * MantissaBits + 3

\* 1.0 in ticks
One == 2 ^ FractionBits

RECURSIVE Log2Floor(_)
Log2Floor(n) == IF n < 2 THEN 0 ELSE 1 + Log2Floor(n \div 2)

\* the whole number nearest to n / d, ties to even
RoundHalfEven(n, d) ==
    LET q == n \div d
        r == n % d
    IN  IF 2 * r < d THEN q
        ELSE IF 2 * r > d THEN q + 1
        ELSE IF q % 2 = 0 THEN q ELSE q + 1

\* the float nearest to the exact value of n / d ticks
FloatOf(n, d) ==
    LET e == Log2Floor(n \div d)
        quantum == IF e >= MantissaBits THEN 2 ^ (e - MantissaBits + 1) ELSE 1
    IN  quantum * RoundHalfEven(n, d * quantum)

FAdd(x, y) == FloatOf(x + y, 1)
FSub(x, y) == FloatOf(x - y, 1)
FMul(x, y) == FloatOf(x * y, One)
\* float * int: the int is converted to a float (exactly, for the ints met here)
FMulInt(x, n) == FloatOf(x * n, 1)

\* the float literal 0.1
Tenth == FloatOf(One, 10)

\* random.random(): a multiple of 2^-MantissaBits in [0.0, 1.0)
RandomFloats == {k * 2 ^ (FractionBits - MantissaBits) : k \in 0..(2 ^ MantissaBits - 1)}

\* random.uniform(a, b) is a + (b - a) * random()
Uniform(a, b, random) == FAdd(a, FMul(FSub(b, a), random))

\* mutant of get_backoff_delay: the jitter is taken off the delay
get_backoff_delay_JitterTakenOff(k, base_delay, random) ==
    FSub(FMulInt(base_delay, 2 ^ k), Uniform(0, Tenth, random))

\* get_backoff_delay(attempt, base_delay), with the draw of random.random()
get_backoff_delay(k, base_delay, random) ==
    LET delay == FMulInt(base_delay, 2 ^ k)
        jitter == Uniform(0, Tenth, random)
    IN  FAdd(delay, jitter)

\* base delays: 0.5, 0.75, 1.0, 1.5, 2.0 and 0.1
BaseDelays ==
    { FloatOf(One, 2), FloatOf(3 * One, 4), One, FloatOf(3 * One, 2), 2 * One, Tenth }

(***************************************************************************)
(* int(text), as applied to the Retry-After header: an optionally signed   *)
(* run of decimal digits, ValueError otherwise.                            *)
(***************************************************************************)
DigitValue == [ch \in {"0", "1", "2", "3", "4", "5", "6", "7", "8", "9"} |->
    CASE ch = "0" -> 0 [] ch = "1" -> 1 [] ch = "2" -> 2 [] ch = "3" -> 3
      [] ch = "4" -> 4 [] ch = "5" -> 5 [] ch = "6" -> 6 [] ch = "7" -> 7
      [] ch = "8" -> 8 [] ch = "9" -> 9]

RECURSIVE DigitsValue(_)
DigitsValue(s) ==
    IF Len(s) = 0 THEN 0
    ELSE 10 * DigitsValue(SubSeq(s, 1, Len(s) - 1)) + DigitValue[s[Len(s)]]

AllDigits(s) == Len(s) > 0 /\ \A i \in 1..Len(s) : s[i] \in DOMAIN DigitValue

\* [ok |-> TRUE, value |-> n], or [ok |-> FALSE] where int() raises ValueError
PyIntOf(s) ==
    IF AllDigits(s) THEN [ok |-> TRUE, value |-> DigitsValue(s)]
    ELSE IF Len(s) > 1 /\ s[1] = "-" /\ AllDigits(Tail(s))
    THEN [ok |-> TRUE, value |-> 0 - DigitsValue(Tail(s))]
    ELSE IF Len(s) > 1 /\ s[1] = "+" /\ AllDigits(Tail(s))
    THEN [ok |-> TRUE, value |-> DigitsValue(Tail(s))]
    ELSE [ok |-> FALSE]

(***************************************************************************)
(* The transport (requests.Session.request / aiohttp.ClientSession.request)*)
(* and the response object it hands back.                                  *)
(***************************************************************************)
Statuses == {200, 304, 400, 401, 404, 408, 429, 500, 503}

\* the Retry-After header: absent, or a text
RetryAfterHeaders == {{}, {<<"6", "0">>}, {<<"0">>}, {<<"a", "b", "c">>}, {<<>>}}

ContentTypes == {"application/json", "text/html"}

\* response bodies: one that is a JSON document, one that is not
JsonBodies == {"{json}"}
Bodies == JsonBodies \cup {"<html>"}

\* The Retry-After header is read on a 429 only and the body is never read on a 401
\* or a 429, so the transport varies them only where the client looks at them.
Responses ==
    {r \in [type : {"response"}, status : Statuses, retry_after : RetryAfterHeaders,
            content_type : ContentTypes, body : Bodies] :
        /\ r.status # 429 => r.retry_after = {}
        /\ r.status \in {401, 429} => (r.content_type = "application/json" /\ r.body = "{json}")}

TransportFailures == {[type |-> "timeout"], [type |-> "connection"]}

TransportOutcomes == Responses \cup TransportFailures

\* what a call remembers of an outcome in `trace`
Seen(o) ==
    [type |-> o.type,
     status |-> IF o.type = "response" THEN SomeInt(o.status) ELSE NoneInt]

\* mutant of ResponseOk: 200 < status instead of 200 <= status
ResponseOk_Above200(response) == 200 < response.status /\ response.status < 400

\* response.ok (requests and aiohttp): no error status
ResponseOk(response) == response.status < 400

\* json.loads(body)
Parsed(body) == [form |-> "parsed", of |-> body]
RawText(body) == [form |-> "text", of |-> body]

\* requests: Response.json() parses the body whatever the content type; on a body
\* that is no JSON it raises requests.JSONDecodeError (a RequestException) from
\* requests 2.27 on and a plain ValueError before (setup.py allows requests>=2.25.0)
RequestsJson(response, mode) ==
    IF response.body \in JsonBodies
    THEN [ok |-> TRUE, value |-> Parsed(response.body)]
    ELSE [ok |-> FALSE, exc |-> Foreign(mode)]

\* aiohttp: ClientResponse.json() raises ContentTypeError (a ClientError) unless the
\* content type is application/json, and json.JSONDecodeError on a body that is no JSON
AiohttpJson(response) ==
    IF response.content_type # "application/json"
    THEN [ok |-> FALSE, exc |-> Foreign("aiohttp.ContentTypeError")]
    ELSE IF response.body \in JsonBodies
    THEN [ok |-> TRUE, value |-> Parsed(response.body)]
    ELSE [ok |-> FALSE, exc |-> Foreign("json.JSONDecodeError")]

(***************************************************************************)
(* One iteration of the retry loop.  A step of Python code ends in one of  *)
(*   [ctl |-> "return", value |-> v]      the function returns v           *)
(*   [ctl |-> "raise",  exc |-> e]        exception e leaves the statement *)
(*   [ctl |-> "next",   last_error |-> e] control reaches the statement    *)
(*                                        that follows                     *)
(***************************************************************************)
Return(value) == [ctl |-> "return", value |-> value]
Raise(exc) == [ctl |-> "raise", exc |-> exc]
Continue(error) == [ctl |-> "next", last_error |-> error]

\* retry_after=int(retry_after) if retry_after else None: the argument expression of
\* RateLimitError, which raises ValueError where int() does
RetryAfterArg(header) ==
    IF header = {} \/ header = {<<>>}
    THEN [ok |-> TRUE, value |-> NoneInt]
    ELSE LET parsed == PyIntOf(CHOOSE text \in header : TRUE)
         IN  IF parsed.ok THEN [ok |-> TRUE, value |-> SomeInt(parsed.value)]
             ELSE [ok |-> FALSE, exc |-> Foreign("ValueError")]

\* mutant of ErrorStatus: the `if response.status_code == 401` statement is missing
ErrorStatus_No401(response, decoded) ==
    IF response.status = 429
    THEN LET arg == RetryAfterArg(response.retry_after)
         IN  IF arg.ok THEN Raise(RateLimitError(arg.value)) ELSE Raise(arg.exc)
    ELSE LET error_data == IF decoded.ok THEN decoded.value ELSE RawText(response.body)
             error == EmailValidatorError("API error", "API_ERROR",
                                          SomeInt(response.status), error_data)
         IN  IF ~is_retryable_status(SomeInt(response.status))
             THEN Raise(error)
             ELSE Continue(error)

\* mutant of ErrorStatus: no `except Exception` around response.json(), the decode
\* failure leaves the statements
ErrorStatus_NoFallback(response, decoded) ==
    IF response.status = 401 THEN Raise(AuthenticationError)
    ELSE IF response.status = 429
    THEN LET arg == RetryAfterArg(response.retry_after)
         IN  IF arg.ok THEN Raise(RateLimitError(arg.value)) ELSE Raise(arg.exc)
    ELSE IF ~decoded.ok THEN Raise(decoded.exc)
    ELSE LET error == EmailValidatorError("API error", "API_ERROR",
                                          SomeInt(response.status), decoded.value)
         IN  IF ~is_retryable_status(SomeInt(response.status))
             THEN Raise(error)
             ELSE Continue(error)

\* the statements that follow `if response.ok` when the response is not ok
\* (client.py 167-196, async_client.py 160-189); decoded is response.json()
ErrorStatus(response, decoded) ==
    IF response.status = 401 THEN Raise(AuthenticationError)
    ELSE IF response.status = 429
    THEN LET arg == RetryAfterArg(response.retry_after)
         IN  IF arg.ok THEN Raise(RateLimitError(arg.value)) ELSE Raise(arg.exc)
    ELSE LET error_data == IF decoded.ok THEN decoded.value ELSE RawText(response.body)
             error == EmailValidatorError("API error", "API_ERROR",
                                          SomeInt(response.status), error_data)
         IN  IF ~is_retryable_status(SomeInt(response.status))
             THEN Raise(error)
             ELSE Continue(error)

\* EmailValidator._request, the suite of the try statement
SyncTry(o, mode) ==
    CASE o.type = "timeout" -> Raise(Foreign("requests.Timeout"))
      [] o.type = "connection" -> Raise(Foreign("requests.ConnectionError"))
      [] o.type = "response" ->
            LET decoded == RequestsJson(o, mode)
            IN  IF ResponseOk(o)
                THEN IF decoded.ok THEN Return(decoded.value) ELSE Raise(decoded.exc)
                ELSE ErrorStatus(o, decoded)

\* mutant of SyncExcept: `except Timeout` raises the SDKTimeoutError instead of
\* recording it
SyncExcept_TimeoutTerminal(done) ==
    IF done.ctl # "raise" THEN done
    ELSE IF IsInstance(done.exc, "requests.Timeout") THEN Raise(SDKTimeoutError)
    ELSE IF IsInstance(done.exc, "RequestException")
    THEN Continue(NetworkError(done.exc.kind))
    ELSE done

\* mutant of SyncExcept: `except Timeout` records nothing
SyncExcept_TimeoutForgotten(done) ==
    IF done.ctl # "raise" THEN done
    ELSE IF IsInstance(done.exc, "requests.Timeout") THEN Continue(NoError)
    ELSE IF IsInstance(done.exc, "RequestException")
    THEN Continue(NetworkError(done.exc.kind))
    ELSE IF IsInstance(done.exc, "AuthenticationError")
            \/ IsInstance(done.exc, "RateLimitError")
    THEN Raise(done.exc)
    ELSE done

\* EmailValidator._request, the except clauses, tried in order
SyncExcept(done) ==
    IF done.ctl # "raise" THEN done
    ELSE IF IsInstance(done.exc, "requests.Timeout") THEN Continue(SDKTimeoutError)
    ELSE IF IsInstance(done.exc, "RequestException")
    THEN Continue(NetworkError(done.exc.kind))
    ELSE IF IsInstance(done.exc, "AuthenticationError")
            \/ IsInstance(done.exc, "RateLimitError")
    THEN Raise(done.exc)
    ELSE done

\* AsyncEmailValidator._request, the suite of the try statement
AsyncTry(o) ==
    CASE o.type = "timeout" -> Raise(Foreign("asyncio.TimeoutError"))
      [] o.type = "connection" -> Raise(Foreign("aiohttp.ClientConnectionError"))
      [] o.type = "response" ->
            LET decoded == AiohttpJson(o)
            IN  IF ResponseOk(o)
                THEN IF decoded.ok THEN Return(decoded.value) ELSE Raise(decoded.exc)
                ELSE ErrorStatus(o, decoded)

\* AsyncEmailValidator._request, the except clauses, tried in order
AsyncExcept(done) ==
    IF done.ctl # "raise" THEN done
    ELSE IF IsInstance(done.exc, "asyncio.TimeoutError") THEN Continue(SDKTimeoutError)
    ELSE IF IsInstance(done.exc, "ClientError")
    THEN Continue(NetworkError(done.exc.kind))
    ELSE IF IsInstance(done.exc, "AuthenticationError")
            \/ IsInstance(done.exc, "RateLimitError")
    THEN Raise(done.exc)
    ELSE done

\* the try statement of one iteration, for the client `kind`
TryStatement(kind, mode, o) ==
    IF kind = "sync"
    THEN SyncExcept(SyncTry(o, mode))
    ELSE AsyncExcept(AsyncTry(o))

\* mutant of SleepFollows: the backoff sleep is made after the last iteration too
SleepFollows_Always(k, retries) == TRUE

\* `if attempt < self.max_retries`: a backoff sleep follows the iteration
SleepFollows(k, retries) == k < retries

\* mutant of AfterLoop: the generic error is raised whatever was recorded
AfterLoop_Generic(last) == NetworkError("Request failed after retries")

\* raise last_error or NetworkError("Request failed after retries")
AfterLoop(last) ==
    IF last.kind # "None" THEN last ELSE NetworkError("Request failed after retries")

\* mutant of InRange: range(self.max_retries), one iteration short
InRange_OneShort(k, retries) == 0 <= k /\ k < retries

\* `for attempt in range(self.max_retries + 1)`: the loop has an iteration k
InRange(k, retries) == 0 <= k /\ k < retries + 1

(***************************************************************************)
(* JSON values as Python holds them once decoded: None, bool, int, str,     *)
(* list and dict (a function from the keys present to their values), and    *)
(* the outcome of evaluating an expression: a value or an exception.       *)
(***************************************************************************)
JNull == [t |-> "null", v |-> 0]
JBool(b) == [t |-> "bool", v |-> b]
JInt(n) == [t |-> "int", v |-> n]
JStr(text) == [t |-> "str", v |-> text]
JList(items) == [t |-> "list", v |-> items]
JDict(f) == [t |-> "dict", v |-> f]
EmptyDict == JDict(<<>>)

Ok(value) == [ok |-> TRUE, value |-> value]
Err(kind) == [ok |-> FALSE, exc |-> kind]

\* x.get(key, default): AttributeError where x has no method get
PyGet(x, key, default) ==
    IF ~x.ok THEN x
    ELSE IF x.value.t # "dict" THEN Err("AttributeError")
    ELSE Ok(IF key \in DOMAIN x.value.v THEN x.value.v[key] ELSE default)

\* x[key]: KeyError where the dict has no such key, TypeError where x is no dict
PyItem(x, key) ==
    IF ~x.ok THEN x
    ELSE IF x.value.t # "dict" THEN Err("TypeError")
    ELSE IF key \in DOMAIN x.value.v THEN Ok(x.value.v[key]) ELSE Err("KeyError")

\* Class(**kwargs) for a dataclass with the fields `required` and, defaulting to
\* None, `optional`: TypeError on a key that is no field, on a required field that
\* is missing, and on kwargs that is no mapping
New(required, optional, kwargs) ==
    IF ~kwargs.ok THEN kwargs
    ELSE IF kwargs.value.t # "dict" THEN Err("TypeError")
    ELSE LET given == kwargs.value.v
         IN  IF DOMAIN given \subseteq (required \cup optional)
                /\ required \subseteq DOMAIN given
             THEN Ok(JDict([field \in required \cup optional |->
                              IF field \in DOMAIN given THEN given[field] ELSE JNull]))
             ELSE Err("TypeError")

\* Enum(value): ValueError unless the value is one of the members
NewEnum(members, x) ==
    IF ~x.ok THEN x
    ELSE IF x.value.t = "str" /\ x.value.v \in members THEN x
    ELSE Err("ValueError")

\* the arguments of a call are evaluated from left to right: the first exception
\* leaves the call, otherwise the object is built from the values
RECURSIVE FirstError(_)
FirstError(parts) ==
    IF parts = <<>> THEN Ok(JNull)
    ELSE IF ~Head(parts).ok THEN Head(parts)
    ELSE FirstError(Tail(parts))

\* an object built from named parts, each a value or an exception
Build(names, parts) ==
    LET first == FirstError(parts)
    IN  IF ~first.ok THEN first
        ELSE Ok(JDict([name \in {names[i] : i \in 1..Len(names)} |->
                         parts[CHOOSE i \in 1..Len(names) : names[i] = name].value]))

(***************************************************************************)
(* types.py: ValidationResult.from_dict.                                   *)
(***************************************************************************)
Deliverability == {"deliverable", "risky", "undeliverable", "unknown"}
RiskLevel == {"low", "medium", "high"}

\* mutant of BlockOr: the default of an absent block is not used
BlockOr_NoDefault(checks_data, name, default) == PyItem(checks_data, name)

\* checks_data.get(name, default)
BlockOr(checks_data, name, default) == PyGet(checks_data, name, default)

\* mutant of NotPassed: the block of the payload is handed to ValidationChecks
NotPassed_PassedThrough(checks_data, name) == PyGet(checks_data, name, JNull)

\* a field of ValidationChecks that from_dict gives no argument for: it keeps its
\* default, None, whatever checks_data holds under `name`
NotPassed(checks_data, name) == Ok(JNull)

\* packages/sdk-python/email_validator_sdk/types.py 151-182
from_dict(data) ==
    LET checks_data == PyGet(Ok(data), "checks", EmptyDict)
        checks ==
            Build(<<"syntax", "domain", "mx", "disposable", "role_based", "free_provider",
                    "typo", "smtp", "authentication", "reputation", "gravatar">>,
                  << New({"valid"}, {"local_part", "domain"},
                         BlockOr(checks_data, "syntax", JDict("valid" :> JBool(FALSE)))),
                     New({"valid", "exists"}, {},
                         BlockOr(checks_data, "domain",
                                 JDict("valid" :> JBool(FALSE) @@ "exists" :> JBool(FALSE)))),
                     New({"valid", "records"}, {"priority"},
                         BlockOr(checks_data, "mx",
                                 JDict("valid" :> JBool(FALSE) @@ "records" :> JList(<<>>)))),
                     Build(<<"is_disposable">>,
                           << PyGet(BlockOr(checks_data, "disposable", EmptyDict),
                                    "isDisposable", JBool(FALSE)) >>),
                     Build(<<"is_role_based", "role">>,
                           << PyGet(BlockOr(checks_data, "roleBased", EmptyDict),
                                    "isRoleBased", JBool(FALSE)),
                              PyGet(BlockOr(checks_data, "roleBased", EmptyDict),
                                    "role", JNull) >>),
                     Build(<<"is_free_provider", "provider">>,
                           << PyGet(BlockOr(checks_data, "freeProvider", EmptyDict),
                                    "isFreeProvider", JBool(FALSE)),
                              PyGet(BlockOr(checks_data, "freeProvider", EmptyDict),
                                    "provider", JNull) >>),
                     NotPassed(checks_data, "typo"),
                     NotPassed(checks_data, "smtp"),
                     NotPassed(checks_data, "authentication"),
                     NotPassed(checks_data, "reputation"),
                     NotPassed(checks_data, "gravatar") >>)
    IN  IF ~checks.ok THEN checks
        ELSE Build(<<"email", "valid", "score", "deliverability", "risk", "checks",
                     "suggestions", "validated_at">>,
                   << PyItem(Ok(data), "email"),
                      PyItem(Ok(data), "valid"),
                      PyItem(Ok(data), "score"),
                      NewEnum(Deliverability, PyItem(Ok(data), "deliverability")),
                      NewEnum(RiskLevel, PyItem(Ok(data), "risk")),
                      checks,
                      PyGet(Ok(data), "suggestions", JNull),
                      PyGet(Ok(data), "validatedAt", JNull) >>)

\* sdk/python/email_validator_sdk/types.py 102-148
sdk_from_dict(data) ==
    LET checks_data == PyGet(Ok(data), "checks", EmptyDict)
        Field(block, key, default) ==
            PyGet(BlockOr(checks_data, block, EmptyDict), key, default)
        checks ==
            Build(<<"syntax", "domain", "mx", "disposable", "role_based", "free_provider",
                    "typo", "blacklisted", "catch_all", "smtp", "authentication",
                    "reputation", "gravatar">>,
                  << New({"valid", "message"}, {},
                         BlockOr(checks_data, "syntax",
                                 JDict("valid" :> JBool(FALSE) @@ "message" :> JStr("")))),
                     New({"valid", "exists", "message"}, {},
                         BlockOr(checks_data, "domain",
                                 JDict("valid" :> JBool(FALSE) @@ "exists" :> JBool(FALSE)
                                       @@ "message" :> JStr("")))),
                     New({"valid", "records", "message"}, {},
                         BlockOr(checks_data, "mx",
                                 JDict("valid" :> JBool(FALSE) @@ "records" :> JList(<<>>)
                                       @@ "message" :> JStr("")))),
                     Build(<<"is_disposable", "message">>,
                           << Field("disposable", "isDisposable", JBool(FALSE)),
                              Field("disposable", "message", JStr("")) >>),
                     Build(<<"is_role_based", "role">>,
                           << Field("roleBased", "isRoleBased", JBool(FALSE)),
                              Field("roleBased", "role", JNull) >>),
                     Build(<<"is_free", "provider">>,
                           << Field("freeProvider", "isFree", JBool(FALSE)),
                              Field("freeProvider", "provider", JNull) >>),
                     Build(<<"has_typo", "suggestion">>,
                           << Field("typo", "hasTypo", JBool(FALSE)),
                              Field("typo", "suggestion", JNull) >>),
                     Build(<<"is_blacklisted", "lists">>,
                           << Field("blacklisted", "isBlacklisted", JBool(FALSE)),
                              Field("blacklisted", "lists", JList(<<>>)) >>),
                     Build(<<"is_catch_all">>,
                           << Field("catchAll", "isCatchAll", JBool(FALSE)) >>),
                     PyGet(checks_data, "smtp", JNull),
                     PyGet(checks_data, "authentication", JNull),
                     PyGet(checks_data, "reputation", JNull),
                     PyGet(checks_data, "gravatar", JNull) >>)
    IN  IF ~checks.ok THEN checks
        ELSE Build(<<"email", "is_valid", "score", "deliverability", "risk", "checks",
                     "timestamp">>,
                   << PyGet(Ok(data), "email", JStr("")),
                      PyGet(Ok(data), "isValid", JBool(FALSE)),
                      PyGet(Ok(data), "score", JInt(0)),
                      PyGet(Ok(data), "deliverability", JStr("unknown")),
                      PyGet(Ok(data), "risk", JStr("high")),
                      checks,
                      PyGet(Ok(data), "timestamp", JStr("")) >>)

(***************************************************************************)
(* Success payloads of /api/validate.  The blocks of `checks` come in the  *)
(* keys each decoder's dataclasses take: "plain" for packages/sdk-python,  *)
(* "message" (every block with a message) for sdk/python.                  *)
(***************************************************************************)
BlockNames == {"syntax", "domain", "mx", "disposable", "roleBased", "freeProvider", "smtp"}
Styles == {"plain", "message"}

WithMessage(style, f) == IF style = "message" THEN f @@ "message" :> JStr("ok") ELSE f

CheckBlock(style, name) ==
    CASE name = "syntax" -> JDict(WithMessage(style, "valid" :> JBool(TRUE)))
      [] name = "domain" ->
            JDict(WithMessage(style, "valid" :> JBool(TRUE) @@ "exists" :> JBool(TRUE)))
      [] name = "mx" ->
            JDict(WithMessage(style, "valid" :> JBool(TRUE)
                                     @@ "records" :> JList(<<JStr("mx.b.c")>>)))
      [] name = "disposable" -> JDict(WithMessage(style, "isDisposable" :> JBool(TRUE)))
      [] name = "roleBased" ->
            JDict("isRoleBased" :> JBool(TRUE) @@ "role" :> JStr("admin"))
      [] name = "freeProvider" ->
            JDict("isFreeProvider" :> JBool(TRUE) @@ "isFree" :> JBool(TRUE)
                  @@ "provider" :> JStr("gmail"))
      [] name = "smtp" ->
            JDict("checked" :> JBool(TRUE) @@ "exists" :> JBool(TRUE)
                  @@ "catchAll" :> JBool(FALSE) @@ "message" :> JStr("ok"))
      [] name = "typo" ->
            JDict("hasTypo" :> JBool(TRUE) @@ "suggestion" :> JStr("a@b.d"))
      [] name = "authentication" -> JDict("score" :> JInt(80))
      [] name = "reputation" -> JDict("score" :> JInt(70) @@ "risk" :> JStr("low"))
      [] name = "gravatar" -> JDict("exists" :> JBool(TRUE))

\* the required top-level fields, present and valid
TopLevel ==
    "email" :> JStr("a@b.c") @@ "valid" :> JBool(TRUE) @@ "isValid" :> JBool(TRUE)
    @@ "score" :> JInt(90) @@ "deliverability" :> JStr("deliverable")
    @@ "risk" :> JStr("low") @@ "timestamp" :> JStr("2024") @@ "validatedAt" :> JStr("2024")

\* a payload with the blocks `present`, or with no checks object at all
Payload(style, with_checks, present) ==
    IF with_checks
    THEN JDict(TopLevel @@ "checks" :> JDict([name \in present |-> CheckBlock(style, name)]))
    ELSE JDict(TopLevel)

\* the dict f without the key `key`
Without(f, key) == [k \in DOMAIN f \ {key} |-> f[k]]

\* the dict f with `key` set to `value`
With(f, key, value) == [k \in DOMAIN f \cup {key} |-> IF k = key THEN value ELSE f[k]]

\* what a server may get wrong in a success payload: a required top-level field
\* absent, of another JSON type, or (an enum field) a string that is no member; a
\* block given as keyword arguments short of a key or with one key more
RequiredFields == {"email", "score", "deliverability", "risk"}
EnumFields == {"deliverability", "risk"}
KwargsBlocks == {"syntax", "domain", "mx"}
NoDamage == [at |-> "none", field |-> "", how |-> ""]
TopDamages ==
    {[at |-> "top", field |-> field, how |-> how] :
        field \in RequiredFields, how \in {"absent", "wrong_shape"}}
    \cup {[at |-> "top", field |-> field, how |-> "unknown_value"] : field \in EnumFields}
BlockDamages ==
    {[at |-> "block", field |-> name, how |-> how] :
        name \in KwargsBlocks, how \in {"missing_key", "extra_key"}}
Damages == {NoDamage} \cup TopDamages \cup BlockDamages

\* a value of another JSON type than the field's
WrongShape(field) ==
    CASE field = "email" -> JInt(5)
      [] field = "score" -> JStr("high")
      [] field = "deliverability" -> JInt(1)
      [] field = "risk" -> JList(<<>>)

\* the key a block is short of
MissingKey(name) ==
    CASE name = "syntax" -> "valid"
      [] name = "domain" -> "exists"
      [] name = "mx" -> "records"

\* the key a block has beyond those of its style: the message of the other style,
\* or a key neither style has
ExtraKey(style) == IF style = "plain" THEN "message" ELSE "detail"

DamagedBlock(style, block, damage) ==
    IF damage.how = "missing_key"
    THEN JDict(Without(block.v, MissingKey(damage.field)))
    ELSE JDict(With(block.v, ExtraKey(style), JStr("x")))

\* the payload `data` with the damage done
Damaged(style, data, damage) ==
    CASE damage.at = "none" -> data
      [] damage.at = "top" ->
            JDict(CASE damage.how = "absent" -> Without(data.v, damage.field)
                    [] damage.how = "wrong_shape" ->
                          With(data.v, damage.field, WrongShape(damage.field))
                    [] damage.how = "unknown_value" ->
                          With(data.v, damage.field, JStr("other")))
      [] damage.at = "block" ->
            JDict(With(data.v, "checks",
                       JDict(With(data.v["checks"].v, damage.field,
                                  DamagedBlock(style, data.v["checks"].v[damage.field],
                                               damage)))))

(***************************************************************************)
(* types.py: BulkValidationResult.from_dict, and the payloads of           *)
(* /api/validate-bulk.                                                     *)
(***************************************************************************)
MaxEmails == 2
MaxResults == 3

\* ValidationResult.from_dict of the decoder named
ItemFromDict(decoder, r) == IF decoder = "packages" THEN from_dict(r) ELSE sdk_from_dict(r)

\* [ValidationResult.from_dict(r) for r in items]: the entries are decoded in their
\* order, and the first exception leaves the comprehension
RECURSIVE EachFromDict(_, _)
EachFromDict(decoder, items) ==
    IF items = <<>> THEN Ok(JList(<<>>))
    ELSE LET first == ItemFromDict(decoder, Head(items))
             rest == EachFromDict(decoder, Tail(items))
         IN  IF ~first.ok THEN first
             ELSE IF ~rest.ok THEN rest
             ELSE Ok(JList(<<first.value>> \o rest.value.v))

\* the comprehension over x: TypeError where x cannot be iterated
Comprehension(decoder, x) ==
    IF ~x.ok THEN x
    ELSE IF x.value.t # "list" THEN Err("TypeError")
    ELSE EachFromDict(decoder, x.value.v)

\* packages/sdk-python/email_validator_sdk/types.py 204-211
bulk_from_dict(data) ==
    Build(<<"results", "summary", "processing_time">>,
          << Comprehension("packages", PyItem(Ok(data), "results")),
             New({"total", "valid", "invalid", "risky", "unknown"}, {},
                 PyItem(Ok(data), "summary")),
             PyItem(Ok(data), "processingTime") >>)

\* sdk/python/email_validator_sdk/types.py 167-184
sdk_bulk_from_dict(data) ==
    LET results == Comprehension("sdk", PyGet(Ok(data), "results", JList(<<>>)))
        meta == PyGet(Ok(data), "metadata", EmptyDict)
        metadata ==
            Build(<<"total", "completed", "duplicates_removed", "invalid_removed",
                    "timed_out", "processing_time_ms">>,
                  << PyGet(meta, "total", JInt(0)),
                     PyGet(meta, "completed", JInt(0)),
                     PyGet(meta, "duplicatesRemoved", JInt(0)),
                     PyGet(meta, "invalidRemoved", JInt(0)),
                     PyGet(meta, "timedOut", JBool(FALSE)),
                     PyGet(meta, "processingTimeMs", JInt(0)) >>)
    IN  Build(<<"results", "metadata">>, <<results, metadata>>)

\* the entries a server puts into the results array: the result for an address, or
\* an entry without its email
EntryKinds == {"x@b.c", "y@b.c", "z@b.c", "no-email"}

\* the score tells the entries apart
ScoreOf(kind) ==
    CASE kind = "x@b.c" -> 10
      [] kind = "y@b.c" -> 20
      [] kind = "z@b.c" -> 30
      [] kind = "no-email" -> 40

Entry(kind) ==
    LET scored == With(TopLevel, "score", JInt(ScoreOf(kind)))
    IN  IF kind = "no-email" THEN JDict(Without(scored, "email"))
        ELSE JDict(With(scored, "email", JStr(kind)))

\* the summary of each API, as the decoders read it
Summaries(count) ==
    "summary" :> JDict("total" :> JInt(count) @@ "valid" :> JInt(count)
                       @@ "invalid" :> JInt(0) @@ "risky" :> JInt(0)
                       @@ "unknown" :> JInt(0))
    @@ "processingTime" :> JInt(12)
    @@ "metadata" :> JDict("total" :> JInt(count) @@ "completed" :> JInt(count)
                           @@ "duplicatesRemoved" :> JInt(0)
                           @@ "invalidRemoved" :> JInt(0)
                           @@ "timedOut" :> JBool(FALSE)
                           @@ "processingTimeMs" :> JInt(12))

\* a success payload of /api/validate-bulk with the entries of the kinds given
BulkPayload(kinds, with_summary) ==
    LET results == "results" :> JList([i \in 1..Len(kinds) |-> Entry(kinds[i])])
    IN  JDict(IF with_summary THEN results @@ Summaries(Len(kinds)) ELSE results)

\* the sequences over `values` of the lengths 0..n
SeqsUpTo(values, n) == UNION {[1..k -> values] : k \in 0..n}

(***************************************************************************)
(* The options of a validation and the request body of validate.  Options  *)
(* are None (the empty set) or an object: the toggles, and in sdk/python   *)
(* the webhook URL (None, or a string).                                    *)
(***************************************************************************)
Toggles == {"smtp_check", "auth_check", "reputation_check", "gravatar_check"}

\* the key of the request body a toggle is sent under
FlagOf(toggle) ==
    CASE toggle = "smtp_check" -> "smtpCheck"
      [] toggle = "auth_check" -> "authCheck"
      [] toggle = "reputation_check" -> "reputationCheck"
      [] toggle = "gravatar_check" -> "gravatarCheck"

WebhookUrls == {PyNone, PyStr(<<>>), PyStr(<<"h", ":", "/", "/", "x">>)}

\* ValidationOptions(...) of packages/sdk-python and ValidateOptions(...) of
\* sdk/python with the toggles `enabled` on
OptionsOf(enabled, webhook_url) ==
    [toggle \in Toggles |-> toggle \in enabled] @@ "webhook_url" :> webhook_url

\* packages/sdk-python has no webhook_url field
PackagesOptions == {{}} \cup {{OptionsOf(enabled, PyNone)} : enabled \in SUBSET Toggles}
SdkOptions ==
    {{}} \cup {{OptionsOf(enabled, url)} : enabled \in SUBSET Toggles, url \in WebhookUrls}

\* the default options: ValidateOptions()
DefaultOptions == OptionsOf({}, PyNone)

\* mutant of to_dict: smtpCheck carries the value of auth_check
to_dict_SmtpFromAuth(options) ==
    "smtpCheck" :> JBool(options["auth_check"])
    @@ "authCheck" :> JBool(options["auth_check"])
    @@ "reputationCheck" :> JBool(options["reputation_check"])
    @@ "gravatarCheck" :> JBool(options["gravatar_check"])

\* ValidationOptions.to_dict
to_dict(options) ==
    "smtpCheck" :> JBool(options["smtp_check"])
    @@ "authCheck" :> JBool(options["auth_check"])
    @@ "reputationCheck" :> JBool(options["reputation_check"])
    @@ "gravatarCheck" :> JBool(options["gravatar_check"])

\* payload.update(other): the keys of `other` overwrite those of payload
Update(payload, other) == other @@ payload

\* packages/sdk-python client.py 83-93: the checks of validate and the payload it
\* hands to _request; an options object is always truthy
validate_payload(email, options) ==
    IF ~Truthy(email) \/ email.type # "str" THEN Err("ValidationError")
    ELSE IF ~is_valid_email_format(email.v) THEN Err("ValidationError")
    ELSE LET payload == "email" :> JStr(email.v)
         IN  Ok(JDict(IF options # {}
                      THEN Update(payload, to_dict(CHOOSE o \in options : TRUE))
                      ELSE payload))

\* `if options.<toggle>: payload[<flag>] = True`
SetIf(payload, options, toggle) ==
    IF options[toggle] THEN Update(payload, FlagOf(toggle) :> JBool(TRUE)) ELSE payload

\* sdk/python client.py 68-83: no check of email; the payload has the flags of the
\* toggles that are on
sdk_validate_payload(email, options) ==
    LET given == IF options # {} THEN CHOOSE o \in options : TRUE ELSE DefaultOptions
        p0 == "email" :> (IF email.type = "str" THEN JStr(email.v) ELSE JNull)
        p1 == SetIf(p0, given, "smtp_check")
        p2 == SetIf(p1, given, "auth_check")
        p3 == SetIf(p2, given, "reputation_check")
        p4 == SetIf(p3, given, "gravatar_check")
    IN  Ok(JDict(p4))

\* the emails validate is called with
BodyEmails ==
    { PyStr(<<"a", "@", "b", ".", "c">>),
      PyStr(<<"a", ".", "b", "@", "c", ".", "d", ".", "e">>),
      PyStr(<<"n", "o", "t", "-", "a", "n", "-", "e", "m", "a", "i", "l">>) }

(***************************************************************************)
(* Headers.  A set of headers gives, for each header name the SDK uses,    *)
(* the set of its values: empty when the header is absent.                 *)
(***************************************************************************)
NoHeaders == [content_type |-> {}, user_agent |-> {}, x_api_key |-> {}]

\* the api_key arguments: None, the empty string, a key
ApiKeys == {{}, {""}, {"key-1"}}

\* `if api_key`: a key was given and it is not empty
KeyGiven(key) == key # {} /\ key # {""}

\* mutant of SessionHeaders: the X-API-Key header is never added
SessionHeaders_NoKey(key) ==
    [content_type |-> {"application/json"},
     user_agent |-> {<<"EmailValidator-Python-SDK", "1.0.0">>},
     x_api_key |-> {}]

\* the headers given to the session: client.py 52-59, async_client.py 57-62; the
\* User-Agent "EmailValidator-Python-SDK/1.0.0" is held as <<product, version>>
SessionHeaders(key) ==
    [content_type |-> {"application/json"},
     user_agent |-> {<<"EmailValidator-Python-SDK", "1.0.0">>},
     x_api_key |-> IF KeyGiven(key) THEN key ELSE {}]

SessionIds == 1..MaxSessions

(***************************************************************************)
(* __init__: the settings a client is built with.  base_url is a text, the *)
(* timeout a number of seconds, retry_delay a float.                       *)
(***************************************************************************)
\* text.rstrip("/"): the text without the slashes it ends with
RECURSIVE RStrip(_)
RStrip(text) ==
    IF text # <<>> /\ text[Len(text)] = "/"
    THEN RStrip(SubSeq(text, 1, Len(text) - 1))
    ELSE text

\* self.base_url, self.timeout (the seconds given; aiohttp.ClientTimeout(total=timeout)
\* in the async client) and self.retry_delay as __init__ sets them; `given` is the
\* base_url argument
Construct(base_url, timeout, retry_delay) ==
    [given |-> base_url, base_url |-> RStrip(base_url), timeout |-> timeout,
     retry_delay |-> retry_delay]

BaseUrls == {<<"h">>, <<"h", "/">>, <<"h", "/", "p", "/", "/">>}
Timeouts == {5, 30}

\* the defaults of timeout and retry_delay
DefaultSettings == Construct(<<"h">>, 30, One)

(***************************************************************************)
(* Inputs of the public methods.                                           *)
(***************************************************************************)
MaxBulk == 1000

SampleEmails ==
    { PyNone, PyInt(0), PyInt(7), PyStr(<<>>),
      PyStr(<<"n", "o", "t", "-", "a", "n", "-", "e", "m", "a", "i", "l">>),
      PyStr(<<"a", "@", "b">>),
      PyStr(<<"@", "b", ".", "c">>),
      PyStr(<<"a", "@", "b", ".">>),
      PyStr(<<"a", " ", "@", "b", ".", "c">>),
      PyStr(<<"a", "@", "b", "@", "c", ".", "d">>),
      PyStr(<<"a", "@", "b", ".", "c">>),
      PyStr(<<"a", ".", "b", "@", "c", ".", "d", ".", "e">>),
      PyStr(<<"a", "@", "b", ".", "c", "\n">>),
      PyStr(<<" ", "a", "@", "b", ".", "c">>),
      PyStr(<<"a", "@", "b", ".", "c", " ">>),
      PyStr(<<"a", "@", "b", ".", "c", "\n", "\n">>) }

\* mutant of TooManyEmails: a list of exactly 1000 entries is refused as well
TooManyEmails_From1000(n) == n >= MaxBulk

\* `len(emails) > 1000`
TooManyEmails(n) == n > MaxBulk

SampleBulks ==
    { PyNone, PyInt(0), PyStr(<<>>), PyStr(<<"a", "@", "b", ".", "c">>),
      PyList(0), PyListOf(<<>>), PyList(1), PyList(2), PyList(MaxBulk - 1),
      PyList(MaxBulk), PyList(MaxBulk + 1), PyList(2 * MaxBulk),
      PyListOf(<<PyStr(<<"n", "o", "t", "-", "a", "n", "-", "e", "m", "a", "i", "l">>)>>),
      PyListOf(<<PyNone, PyInt(7), PyStr(<<>>)>>),
      PyListOf(<<PyStr(<<"a", "@", "b", ".", "c">>), PyStr(<<"a", " ", "@", "b">>)>>) }

(***************************************************************************)
(* State of a call.                                                        *)
(***************************************************************************)
Pending == [how |-> "pending"]
Returned(value) == [how |-> "returned", value |-> value]
\* `at` is the place of the raise: "input" (the public method, before _request),
\* "try" (the try statement of the loop), "after_loop" (the statement after the loop)
Raised(exc, at) == [how |-> "raised", exc |-> exc, at |-> at]

\* a call slot is free: nothing was called on it yet, or its call is over
Free(c) == c \in callers /\ pc[c] \in {"idle", "done"}

\* a public method raises before _request is called
Reject(c, exc) ==
    /\ pc' = [pc EXCEPT ![c] = "done"]
    /\ result' = [result EXCEPT ![c] = Raised(exc, "input")]
    /\ sess' = [sess EXCEPT ![c] = 0]
    /\ attempt' = [attempt EXCEPT ![c] = 0]
    /\ last_error' = [last_error EXCEPT ![c] = NoError]
    /\ n_transport' = [n_transport EXCEPT ![c] = 0]
    /\ sleeps' = [sleeps EXCEPT ![c] = <<>>]
    /\ trace' = [trace EXCEPT ![c] = <<>>]
    /\ issued' = [issued EXCEPT ![c] = NoHeaders]
    /\ sent' = [sent EXCEPT ![c] = <<>>]
    /\ UNCHANGED <<config, session, closed, headers>>

\* mutant of NeedsSession: a closed session is kept
NeedsSession_OnlyNone == client = "async" /\ session = 0

\* mutant of NeedsSession: every call makes a session of its own
NeedsSession_EveryCall == client = "async"

\* AsyncEmailValidator._get_session: a new session object is needed
NeedsSession == client = "async" /\ (session = 0 \/ session \in closed)

\* mutant of HeadersOnIssue: the request method writes a header of its own into the
\* headers of the client's session
HeadersOnIssue_PerCall(c) ==
    LET s == IF NeedsSession THEN session + 1 ELSE session
    IN  [headers EXCEPT ![s] = [SessionHeaders(api_key) EXCEPT !.x_api_key = {c}]]

\* the headers of the session objects once call c is issued: _get_session gives a
\* new session its headers, and no request method writes to the headers of a
\* session there is
HeadersOnIssue(c) ==
    IF NeedsSession
    THEN [headers EXCEPT ![session + 1] = SessionHeaders(api_key)]
    ELSE headers

\* _request up to the first iteration of its loop: the session is read (and created
\* by _get_session in the async client), last_error = None, and the loop is entered
\* or, when range(max_retries + 1) is empty, skipped
EnterRequest(c) ==
    /\ NeedsSession => session < MaxSessions
    /\ session' = IF NeedsSession THEN session + 1 ELSE session
    /\ headers' = HeadersOnIssue(c)
    /\ sess' = [sess EXCEPT ![c] = session']
    /\ issued' = [issued EXCEPT ![c] = headers'[session']]
    /\ sent' = [sent EXCEPT ![c] = <<>>]
    /\ attempt' = [attempt EXCEPT ![c] = 0]
    /\ last_error' = [last_error EXCEPT ![c] = NoError]
    /\ n_transport' = [n_transport EXCEPT ![c] = 0]
    /\ sleeps' = [sleeps EXCEPT ![c] = <<>>]
    /\ trace' = [trace EXCEPT ![c] = <<>>]
    /\ IF InRange(0, max_retries)
       THEN /\ pc' = [pc EXCEPT ![c] = "attempt"]
            /\ result' = [result EXCEPT ![c] = Pending]
       ELSE /\ pc' = [pc EXCEPT ![c] = "done"]
            /\ result' = [result EXCEPT ![c] = Raised(AfterLoop(NoError), "after_loop")]
    /\ UNCHANGED <<config, closed>>

\* validate(email)
Validate(c, email) ==
    /\ Free(c)
    /\ IF ~Truthy(email) \/ email.type # "str"
       THEN Reject(c, ValidationError("Email is required"))
       ELSE IF ~is_valid_email_format(email.v)
       THEN Reject(c, ValidationError("Invalid email format"))
       ELSE EnterRequest(c)

\* validate_bulk(emails)
ValidateBulk(c, emails) ==
    /\ Free(c)
    /\ IF ~Truthy(emails) \/ emails.type # "list"
       THEN Reject(c, ValidationError("Emails list is required"))
       ELSE IF emails.len = 0
       THEN Reject(c, ValidationError("Emails list cannot be empty"))
       ELSE IF TooManyEmails(emails.len)
       THEN Reject(c, ValidationError("Maximum 1000 emails per request"))
       ELSE EnterRequest(c)

\* health_check()
HealthCheck(c) ==
    /\ Free(c)
    /\ EnterRequest(c)

\* the call ends: it returns a value or an exception leaves it, and the locals of
\* _request (session, attempt, last_error) are gone
Finish(c, outcome) ==
    /\ pc' = [pc EXCEPT ![c] = "done"]
    /\ result' = [result EXCEPT ![c] = outcome]
    /\ sess' = [sess EXCEPT ![c] = 0]
    /\ attempt' = [attempt EXCEPT ![c] = 0]
    /\ last_error' = [last_error EXCEPT ![c] = NoError]

\* mutant of NextIteration: last_error is a field of the client, one for all calls
NextIteration_SharedLastError(c, last) ==
    IF InRange(attempt[c] + 1, max_retries)
    THEN /\ attempt' = [attempt EXCEPT ![c] = attempt[c] + 1]
         /\ last_error' = [d \in CallIds |-> last]
         /\ pc' = [pc EXCEPT ![c] = "attempt"]
         /\ UNCHANGED <<result, sess>>
    ELSE Finish(c, Raised(AfterLoop(last), "after_loop"))

\* mutant of NextIteration: every iteration reads self._session anew
NextIteration_RereadsSession(c, last) ==
    IF InRange(attempt[c] + 1, max_retries)
    THEN /\ attempt' = [attempt EXCEPT ![c] = attempt[c] + 1]
         /\ last_error' = [last_error EXCEPT ![c] = last]
         /\ pc' = [pc EXCEPT ![c] = "attempt"]
         /\ sess' = [sess EXCEPT ![c] = session]
         /\ UNCHANGED result
    ELSE Finish(c, Raised(AfterLoop(last), "after_loop"))

\* the loop moves on from iteration attempt[c]: the next iteration starts, or the
\* loop is over and the statement after it raises
NextIteration(c, last) ==
    IF InRange(attempt[c] + 1, max_retries)
    THEN /\ attempt' = [attempt EXCEPT ![c] = attempt[c] + 1]
         /\ last_error' = [last_error EXCEPT ![c] = last]
         /\ pc' = [pc EXCEPT ![c] = "attempt"]
         /\ UNCHANGED <<result, sess>>
    ELSE Finish(c, Raised(AfterLoop(last), "after_loop"))

\* what a call remembers in `trace` of a request its closed session refused
Refused == [type |-> "refused", status |-> NoneInt]

\* session.request(...) is called.  A closed aiohttp session refuses the request
\* with RuntimeError("Session is closed") before anything is sent, and no except
\* clause of _request catches it; a closed requests session still sends.
Send(c) ==
    /\ pc[c] = "attempt"
    /\ n_transport' = [n_transport EXCEPT ![c] = n_transport[c] + 1]
    /\ IF client = "async" /\ sess[c] \in closed
       THEN /\ Finish(c, Raised(AsyncExcept(Raise(Foreign("RuntimeError"))).exc, "try"))
            /\ trace' = [trace EXCEPT ![c] = Append(trace[c], Refused)]
            /\ UNCHANGED sent
       ELSE /\ pc' = [pc EXCEPT ![c] = "inflight"]
            /\ sent' = [sent EXCEPT ![c] = Append(sent[c], headers[sess[c]])]
            /\ UNCHANGED <<result, sess, attempt, last_error, trace>>
    /\ UNCHANGED <<config, session, closed, sleeps, headers, issued>>

\* the transport answers with outcome o and the rest of the iteration runs, up to
\* the backoff sleep
Receive(c, o) ==
    /\ pc[c] = "inflight"
    /\ trace' = [trace EXCEPT ![c] = Append(trace[c], Seen(o))]
    /\ LET done == TryStatement(client, json_error, o)
       IN  CASE done.ctl = "return" ->
                    /\ Finish(c, Returned(done.value))
                    /\ UNCHANGED sleeps
             [] done.ctl = "raise" ->
                    /\ Finish(c, Raised(done.exc, "try"))
                    /\ UNCHANGED sleeps
             [] done.ctl = "next" ->
                    IF SleepFollows(attempt[c], max_retries)
                    THEN /\ last_error' = [last_error EXCEPT ![c] = done.last_error]
                         /\ sleeps' = [sleeps EXCEPT ![c] = Append(sleeps[c], attempt[c])]
                         /\ pc' = [pc EXCEPT ![c] = "sleep"]
                         /\ UNCHANGED <<attempt, result, sess>>
                    ELSE /\ NextIteration(c, done.last_error)
                         /\ UNCHANGED sleeps
    /\ UNCHANGED <<config, session, closed, n_transport, headers, issued, sent>>

\* mutant of Wake: the backoff sleep does not return
Wake_NeverOver(c) ==
    /\ pc[c] = "sleep"
    /\ UNCHANGED vars

\* the backoff sleep is over
Wake(c) ==
    /\ pc[c] = "sleep"
    /\ NextIteration(c, last_error[c])
    /\ UNCHANGED <<config, session, closed, n_transport, sleeps, trace, headers,
                   issued, sent>>

\* mutant of CloseSession: the async client closes without looking at its session
CloseSession_Unguarded == closed' = closed \cup {session}

\* the body of close(): requests' Session.close() whatever the state of the session;
\* the async client closes its session only when it has one that is open
CloseSession ==
    closed' = IF client = "sync" THEN closed \cup {session}
              ELSE IF session # 0 /\ session \notin closed THEN closed \cup {session}
              ELSE closed

\* mutant of Close: close() also clears self.base_url
Close_ClearsBaseUrl ==
    /\ CloseSession
    /\ settings' = [settings EXCEPT !.base_url = <<>>]
    /\ UNCHANGED <<client, max_retries, json_error, callers, api_key, eval, session, pc,
                   sess, attempt, last_error, result, n_transport, sleeps, trace,
                   headers, issued, sent>>

\* close()
Close ==
    /\ CloseSession
    /\ UNCHANGED <<config, session, pc, sess, attempt, last_error, result,
                   n_transport, sleeps, trace, headers, issued, sent>>

\* __exit__ / __aexit__: the with block is left, normally or by an exception (the
\* arguments are not looked at), and close() is called; __enter__ changes nothing
ExitBlock ==
    /\ CloseSession
    /\ UNCHANGED <<config, session, pc, sess, attempt, last_error, result,
                   n_transport, sleeps, trace, headers, issued, sent>>

(***************************************************************************)
(* The client after construction, and its behaviours: one caller issues    *)
(* calls one after the other, and close() may be called at any moment.     *)
(***************************************************************************)
InitPipeline ==
    /\ client \in {"sync", "async"}
    /\ max_retries \in -1..MaxRetries
    /\ json_error \in IF client = "sync" THEN {"requests.JSONDecodeError", "ValueError"}
                      ELSE {"json.JSONDecodeError"}
    /\ session = IF client = "sync" THEN 1 ELSE 0
    /\ closed = {}
    /\ callers \in {{"c1"}, CallIds}
    /\ pc = [c \in CallIds |-> "idle"]
    /\ sess = [c \in CallIds |-> 0]
    /\ attempt = [c \in CallIds |-> 0]
    /\ last_error = [c \in CallIds |-> NoError]
    /\ result = [c \in CallIds |-> Pending]
    /\ n_transport = [c \in CallIds |-> 0]
    /\ sleeps = [c \in CallIds |-> <<>>]
    /\ trace = [c \in CallIds |-> <<>>]
    /\ api_key \in ApiKeys
    /\ headers = [s \in SessionIds |->
                    IF client = "sync" /\ s = 1 THEN SessionHeaders(api_key) ELSE NoHeaders]
    /\ issued = [c \in CallIds |-> NoHeaders]
    /\ sent = [c \in CallIds |-> <<>>]
    /\ settings \in {Construct(base_url, timeout, retry_delay) :
                        base_url \in BaseUrls, timeout \in Timeouts,
                        retry_delay \in {One, 2 * One}}

\* a client built with an API key
Init ==
    /\ InitPipeline
    /\ settings = DefaultSettings
    /\ callers = {"c1"}
    /\ api_key = {"key-1"}
    /\ eval = [fn |-> "none"]

Next ==
    \/ \E c \in CallIds : \E email \in SampleEmails : Validate(c, email)
    \/ \E c \in CallIds : \E emails \in SampleBulks : ValidateBulk(c, emails)
    \/ \E c \in CallIds : HealthCheck(c)
    \/ \E c \in CallIds : Send(c)
    \/ \E c \in CallIds : \E o \in TransportOutcomes : Receive(c, o)
    \/ \E c \in CallIds : Wake(c)
    \/ Close
    \/ ExitBlock

Spec == Init /\ [][Next]_vars

\* the transport answers every request it is given and every backoff sleep returns:
\* a call that is in _request takes its next step
Progress ==
    \A c \in CallIds :
        /\ WF_vars(Send(c))
        /\ WF_vars(\E o \in TransportOutcomes : Receive(c, o))
        /\ WF_vars(Wake(c))

\* one input of each kind the public methods tell apart: refused, and accepted
LiveEmails == {PyStr(<<"a", "@", "b">>), PyStr(<<"a", "@", "b", ".", "c">>)}
LiveBulks == {PyList(0), PyList(1)}

NextLive ==
    \/ \E c \in CallIds : \E email \in LiveEmails : Validate(c, email)
    \/ \E c \in CallIds : \E emails \in LiveBulks : ValidateBulk(c, emails)
    \/ \E c \in CallIds : HealthCheck(c)
    \/ \E c \in CallIds : Send(c)
    \/ \E c \in CallIds : \E o \in TransportOutcomes : Receive(c, o)
    \/ \E c \in CallIds : Wake(c)
    \/ Close
    \/ ExitBlock

SpecLive == Init /\ [][NextLive]_vars /\ Progress

(***************************************************************************)
(* The same behaviours for clients built with any api_key argument (None,  *)
(* empty, a key) and at most one retry.                                    *)
(***************************************************************************)
InitHeaders ==
    /\ InitPipeline
    /\ settings = DefaultSettings
    /\ callers = {"c1"}
    /\ max_retries \in 0..1
    /\ eval = [fn |-> "none"]

SpecHeaders == InitHeaders /\ [][Next]_vars

(***************************************************************************)
(* Clients built with various settings, with and without a key.            *)
(***************************************************************************)
InitConfig ==
    /\ InitPipeline
    /\ callers = {"c1"}
    /\ max_retries \in 0..1
    /\ api_key \in {{}, {"key-1"}}
    /\ settings.timeout = 30 \/ settings.given = <<"h">>
    /\ settings.retry_delay = One \/ settings.timeout = 5
    /\ eval = [fn |-> "none"]

SpecConfig == InitConfig /\ [][Next]_vars

(***************************************************************************)
(* Two callers (threads on the sync client, tasks on the async client)     *)
(* issue calls on the same client at the same time, with one retry; the    *)
(* transport answers with a success, a 401, a 500 or a timeout.            *)
(***************************************************************************)
FewOutcomes ==
    {o \in TransportOutcomes :
        \/ o.type = "timeout"
        \/ /\ o.type = "response"
           /\ o.status \in {200, 401, 500}
           /\ o.content_type = "application/json"
           /\ o.body \in JsonBodies}

InitConcurrent ==
    /\ InitPipeline
    /\ settings = DefaultSettings
    /\ callers = CallIds
    /\ max_retries = 1
    /\ json_error \in {"requests.JSONDecodeError", "json.JSONDecodeError"}
    /\ eval = [fn |-> "none"]

NextConcurrent ==
    \/ \E c \in CallIds : \E email \in SampleEmails : Validate(c, email)
    \/ \E c \in CallIds : \E emails \in SampleBulks : ValidateBulk(c, emails)
    \/ \E c \in CallIds : HealthCheck(c)
    \/ \E c \in CallIds : Send(c)
    \/ \E c \in CallIds : \E o \in FewOutcomes : Receive(c, o)
    \/ \E c \in CallIds : Wake(c)
    \/ Close
    \/ ExitBlock

SpecConcurrent == InitConcurrent /\ [][NextConcurrent]_vars

(***************************************************************************)
(* get_backoff_delay evaluated on its own: the arguments are chosen at the  *)
(* start, and the call draws its random number and returns.                *)
(***************************************************************************)
\* a client on which nothing is called
IdlePipeline ==
    /\ InitPipeline
    /\ settings = DefaultSettings
    /\ client = "sync"
    /\ max_retries = 0
    /\ json_error = "ValueError"
    /\ callers = {"c1"}
    /\ api_key = {}

InitBackoff ==
    /\ IdlePipeline
    /\ \E k \in 0..MaxBackoffAttempt : \E base_delay \in BaseDelays :
          eval = [fn |-> "get_backoff_delay", attempt |-> k, base_delay |-> base_delay,
                  random |-> {}, out |-> {}]

GetBackoffDelay ==
    /\ eval.fn = "get_backoff_delay"
    /\ eval.out = {}
    /\ \E random \in RandomFloats :
          eval' = [eval EXCEPT
                      !.random = {random},
                      !.out = {get_backoff_delay(eval.attempt, eval.base_delay, random)}]
    /\ UNCHANGED pipeline

NextBackoff == GetBackoffDelay

SpecBackoff == InitBackoff /\ [][NextBackoff]_vars

(***************************************************************************)
(* ValidationResult.from_dict evaluated on its own, for the decoder of      *)
(* packages/sdk-python ("packages") and the one of sdk/python ("sdk").      *)
(***************************************************************************)
InitDecode ==
    /\ IdlePipeline
    /\ \E decoder \in {"packages", "sdk"} : \E style \in Styles :
       \E with_checks \in BOOLEAN : \E present \in SUBSET BlockNames :
          /\ ~with_checks => present = {}
          /\ eval = [fn |-> "from_dict", decoder |-> decoder, style |-> style,
                     with_checks |-> with_checks, present |-> present,
                     data |-> Payload(style, with_checks, present), out |-> {}]

FromDict ==
    /\ eval.fn = "from_dict"
    /\ eval.out = {}
    /\ eval' = [eval EXCEPT !.out = {IF eval.decoder = "packages"
                                     THEN from_dict(eval.data)
                                     ELSE sdk_from_dict(eval.data)}]
    /\ UNCHANGED pipeline

NextDecode == FromDict

SpecDecode == InitDecode /\ [][NextDecode]_vars

(***************************************************************************)
(* ValidationResult.from_dict on payloads with the blocks of the checks    *)
(* made on request (and the typo block).                                   *)
(***************************************************************************)
OptionalBlocks == {"typo", "smtp", "authentication", "reputation", "gravatar"}

InitOptional ==
    /\ IdlePipeline
    /\ \E decoder \in {"packages", "sdk"} : \E style \in Styles :
       \E present \in SUBSET (OptionalBlocks \cup {"disposable"}) :
          eval = [fn |-> "from_dict", decoder |-> decoder, style |-> style,
                  with_checks |-> TRUE, present |-> present,
                  data |-> Payload(style, TRUE, present), out |-> {}]

SpecOptional == InitOptional /\ [][NextDecode]_vars

(***************************************************************************)
(* ValidationResult.from_dict on payloads a server got wrong.              *)
(***************************************************************************)
InitDamaged ==
    /\ IdlePipeline
    /\ \E decoder \in {"packages", "sdk"} : \E style \in Styles :
       \E with_checks \in BOOLEAN : \E present \in SUBSET BlockNames :
       \E damage \in Damages :
          /\ ~with_checks => present = {}
          /\ damage.at = "block" => damage.field \in present
          /\ eval = [fn |-> "from_dict", decoder |-> decoder, style |-> style,
                     with_checks |-> with_checks, present |-> present,
                     damage |-> damage,
                     data |-> Damaged(style, Payload(style, with_checks, present), damage),
                     out |-> {}]

SpecDamaged == InitDamaged /\ [][NextDecode]_vars

(***************************************************************************)
(* validate_bulk once _request has returned the payload: the list emails   *)
(* passed the checks of validate_bulk, and BulkValidationResult.from_dict  *)
(* decodes what the server sent.                                           *)
(***************************************************************************)
InitBulk ==
    /\ IdlePipeline
    /\ \E decoder \in {"packages", "sdk"} : \E n \in 1..MaxEmails :
       \E kinds \in SeqsUpTo(EntryKinds, MaxResults) : \E with_summary \in BOOLEAN :
          /\ ~TooManyEmails(n)
          /\ eval = [fn |-> "validate_bulk", decoder |-> decoder, emails |-> PyList(n),
                     kinds |-> kinds, data |-> BulkPayload(kinds, with_summary),
                     out |-> {}]

BulkFromDict ==
    /\ eval.fn = "validate_bulk"
    /\ eval.out = {}
    /\ eval' = [eval EXCEPT !.out = {IF eval.decoder = "packages"
                                     THEN bulk_from_dict(eval.data)
                                     ELSE sdk_bulk_from_dict(eval.data)}]
    /\ UNCHANGED pipeline

NextBulk == BulkFromDict

SpecBulk == InitBulk /\ [][NextBulk]_vars

(***************************************************************************)
(* validate up to its call of _request: the request body built from the    *)
(* email and the options, by packages/sdk-python and by sdk/python.        *)
(***************************************************************************)
InitBody ==
    /\ IdlePipeline
    /\ \E sdk \in {"packages", "sdk"} : \E email \in BodyEmails :
       \E options \in (IF sdk = "packages" THEN PackagesOptions ELSE SdkOptions) :
          eval = [fn |-> "validate", sdk |-> sdk, email |-> email, options |-> options,
                  out |-> {}]

ValidatePayload ==
    /\ eval.fn = "validate"
    /\ eval.out = {}
    /\ eval' = [eval EXCEPT !.out = {IF eval.sdk = "packages"
                                     THEN validate_payload(eval.email, eval.options)
                                     ELSE sdk_validate_payload(eval.email, eval.options)}]
    /\ UNCHANGED pipeline

NextBody == ValidatePayload

SpecBody == InitBody /\ [][NextBody]_vars

(***************************************************************************)
(* is_retryable_status evaluated on its own, for no status and for every   *)
(* status code of HTTP up to MaxStatus.                                    *)
(***************************************************************************)
MinStatus == 100
MaxStatus == 599

InitClassify ==
    /\ IdlePipeline
    /\ \E status_code \in {NoneInt} \cup {SomeInt(s) : s \in MinStatus..MaxStatus} :
          eval = [fn |-> "is_retryable_status", status_code |-> status_code, out |-> {}]

IsRetryableStatus ==
    /\ eval.fn = "is_retryable_status"
    /\ eval.out = {}
    /\ eval' = [eval EXCEPT !.out = {is_retryable_status(eval.status_code)}]
    /\ UNCHANGED pipeline

NextClassify == IsRetryableStatus

SpecClassify == InitClassify /\ [][NextClassify]_vars

(***************************************************************************)
(* One iteration of the loop of _request on its own: the try statement of  *)
(* either client on one outcome of the transport.                          *)
(***************************************************************************)
InitTry ==
    /\ InitPipeline
    /\ settings = DefaultSettings
    /\ max_retries = 0
    /\ callers = {"c1"}
    /\ api_key = {}
    /\ \E o \in TransportOutcomes : eval = [fn |-> "try", o |-> o, out |-> {}]

Try ==
    /\ eval.fn = "try"
    /\ eval.out = {}
    /\ eval' = [eval EXCEPT !.out = {TryStatement(client, json_error, eval.o)}]
    /\ UNCHANGED pipeline

NextTry == Try

SpecTry == InitTry /\ [][NextTry]_vars

(***************************************************************************)
(* Properties of the attempt budget.                                       *)
(***************************************************************************)
\* a retryable failure as the pipeline contract names it: a connection failure, a
\* timeout, status 408 or a status of 500 and above
RetryableFailure(e) ==
    \/ e.type \in {"timeout", "connection"}
    \/ e.type = "response" /\ \E s \in e.status : s = 408 \/ s >= 500

AllRetryableFailures(t) == \A i \in 1..Len(t) : RetryableFailure(t[i])

\* the call went through _request and is over
RequestOver(c) == pc[c] = "done" /\ ~(result[c].how = "raised" /\ result[c].at = "input")

\* C1: with max_retries = N >= 0 a call invokes the transport at most N+1 times; a
\* call all of whose attempts end in a retryable failure invokes it exactly N+1
\* times and then raises (never returns, never stays in the loop after attempt N)
C1_AttemptBudget ==
    \A c \in CallIds :
        max_retries >= 0 =>
            /\ n_transport[c] <= max_retries + 1
            /\ (RequestOver(c) /\ AllRetryableFailures(trace[c])) =>
                    /\ n_transport[c] = max_retries + 1
                    /\ result[c].how = "raised"
            /\ (Len(trace[c]) = max_retries + 1 /\ AllRetryableFailures(trace[c])) =>
                    /\ pc[c] = "done"
                    /\ result[c].how = "raised"

\* C1 witness: max_retries = 2 and three retryable failures (500, timeout, connection
\* failure): the call has raised after exactly three invocations
C1_Witness ==
    \E c \in CallIds :
        /\ max_retries = 2
        /\ pc[c] = "done"
        /\ result[c].how = "raised"
        /\ n_transport[c] = 3
        /\ trace[c] = << [type |-> "response", status |-> {500}],
                         [type |-> "timeout", status |-> {}],
                         [type |-> "connection", status |-> {}] >>

(***************************************************************************)
(* Properties of the way an attempt ends.                                  *)
(***************************************************************************)
\* the response carries a body the client decodes: a JSON document, which aiohttp
\* accepts only when it is served as application/json
Decodes(o) ==
    /\ o.body \in JsonBodies
    /\ client = "async" => o.content_type = "application/json"

\* the call c is over and stays as it ended, or a new call was issued on its slot
StaysOver(c) ==
    \/ /\ pc'[c] = "done"
       /\ result'[c] = result[c]
       /\ n_transport'[c] = n_transport[c]
       /\ sleeps'[c] = sleeps[c]
       /\ trace'[c] = trace[c]
    \/ /\ n_transport'[c] = 0
       /\ sleeps'[c] = <<>>
       /\ trace'[c] = <<>>

\* the step in which call c receives outcome o ends the call with `outcome`, without
\* another sleep; it was attempt k = attempt[c], the (k+1)-th transport invocation
EndsWith(c, outcome) ==
    /\ pc'[c] = "done"
    /\ result'[c] = outcome
    /\ n_transport'[c] = attempt[c] + 1
    /\ Len(trace[c]) = attempt[c]
    /\ sleeps'[c] = sleeps[c]
    /\ Len(sleeps[c]) = attempt[c]

C3_UnauthorizedIsTerminal ==
    [][\A c \in CallIds :
        /\ pc[c] = "inflight" =>
              \A o \in {r \in Responses : r.status = 401} :
                  Receive(c, o) =>
                      /\ EndsWith(c, result'[c])
                      /\ result'[c].how = "raised"
                      /\ result'[c].exc.kind = "AuthenticationError"
                      /\ result'[c].exc.code = "AUTHENTICATION_ERROR"
                      /\ result'[c].exc.status_code = {401}
                      /\ result'[c].exc # last_error[c]
        /\ (pc[c] = "done" /\ result[c].how = "raised"
              /\ result[c].exc.kind = "AuthenticationError") => StaysOver(c)]_vars

\* C3 witness: a 401 on attempt 1, after a recorded 500 and one sleep
C3_Witness ==
    \E c \in CallIds :
        /\ pc[c] = "done"
        /\ result[c].how = "raised"
        /\ result[c].exc.kind = "AuthenticationError"
        /\ n_transport[c] = 2
        /\ Len(sleeps[c]) = 1
        /\ trace[c] = << [type |-> "response", status |-> {500}],
                         [type |-> "response", status |-> {401}] >>

\* C4, as claimed: a 429 on any attempt makes _request raise RateLimitError at once,
\* with retry_after the integer value of the Retry-After header (60 for "60") and
\* None when the header is absent
C4_RateLimitedIsTerminal ==
    [][\A c \in CallIds :
        pc[c] = "inflight" =>
            \A o \in {r \in Responses : r.status = 429} :
                Receive(c, o) =>
                    /\ EndsWith(c, result'[c])
                    /\ result'[c].how = "raised"
                    /\ result'[c].exc.kind = "RateLimitError"
                    /\ o.retry_after = {} => result'[c].exc.retry_after = {}
                    /\ o.retry_after = {<<"6", "0">>} => result'[c].exc.retry_after = {60}]_vars

\* C5: a status that is no success, not 401, not 429, not 408 and below 500 makes
\* _request raise EmailValidatorError with code API_ERROR and that status at once
C5_ClientErrorIsTerminal ==
    [][\A c \in CallIds :
        /\ pc[c] = "inflight" =>
              \A o \in {r \in Responses : r.status \in (400..499) \ {401, 408, 429}} :
                  Receive(c, o) =>
                      /\ EndsWith(c, result'[c])
                      /\ result'[c].how = "raised"
                      /\ result'[c].exc.kind = "EmailValidatorError"
                      /\ result'[c].exc.code = "API_ERROR"
                      /\ result'[c].exc.status_code = {o.status}
        /\ (pc[c] = "done" /\ result[c].how = "raised"
              /\ result[c].exc.code = "API_ERROR") => StaysOver(c)]_vars

\* C5 witness: a 404 on attempt 1, after a recorded 503 and one sleep
C5_Witness ==
    \E c \in CallIds :
        /\ pc[c] = "done"
        /\ result[c].how = "raised"
        /\ result[c].exc.kind = "EmailValidatorError"
        /\ result[c].exc.status_code = {404}
        /\ n_transport[c] = 2
        /\ Len(sleeps[c]) = 1
        /\ trace[c] = << [type |-> "response", status |-> {503}],
                         [type |-> "response", status |-> {404}] >>

(***************************************************************************)
(* Properties of the error a call ends with.                               *)
(***************************************************************************)
\* the error the loop records for an outcome it has seen, as far as `trace` tells
RecordedFor(e, exc) ==
    CASE e.type = "timeout" -> exc.kind = "SDKTimeoutError" /\ exc.code = "TIMEOUT_ERROR"
      [] e.type = "connection" -> exc.kind = "NetworkError" /\ exc.code = "NETWORK_ERROR"
      [] e.type = "response" ->
            IF \E st \in e.status : st >= 400
            THEN /\ exc.kind = "EmailValidatorError"
                 /\ exc.code = "API_ERROR"
                 /\ exc.status_code = e.status
            ELSE exc.kind = "NetworkError"
      [] OTHER -> FALSE

\* C6: when the loop has used its max_retries+1 attempts and the statement after
\* it raises, the error raised is the one recorded for the final attempt
C6_LastErrorIsRaised ==
    \A c \in CallIds :
        (max_retries >= 0 /\ pc[c] = "done" /\ result[c].how = "raised"
            /\ result[c].at = "after_loop") =>
                /\ Len(trace[c]) = max_retries + 1
                /\ n_transport[c] = max_retries + 1
                /\ RecordedFor(trace[c][Len(trace[c])], result[c].exc)

\* C6 witness: max_retries = 1, a timeout and then a 503: the API error with status
\* 503 is raised, not the Timeout error recorded first
C6_Witness ==
    \E c \in CallIds :
        /\ max_retries = 1
        /\ pc[c] = "done"
        /\ result[c].how = "raised"
        /\ result[c].at = "after_loop"
        /\ result[c].exc.kind = "EmailValidatorError"
        /\ result[c].exc.status_code = {503}
        /\ trace[c] = << [type |-> "timeout", status |-> {}],
                         [type |-> "response", status |-> {503}] >>

\* the error class a transport failure is recorded as
FailureKind(o) == IF o.type = "timeout" THEN "SDKTimeoutError" ELSE "NetworkError"

\* C7: a transport failure never ends the call by itself: it is recorded (a timeout
\* as a Timeout error, any other failure as a Network error), it uses up one of
\* the max_retries+1 attempts, a sleep and the next attempt follow when attempts
\* are left, and a call whose attempts all time out makes all max_retries+1 of them
C7_TransportFailureIsRetried ==
    [][\A c \in CallIds :
        /\ pc[c] = "inflight" =>
              \A o \in TransportFailures :
                  Receive(c, o) =>
                      /\ n_transport'[c] = attempt[c] + 1
                      /\ IF attempt[c] < max_retries
                         THEN /\ pc'[c] = "sleep"
                              /\ result'[c].how = "pending"
                              /\ last_error'[c].kind = FailureKind(o)
                              /\ attempt'[c] = attempt[c]
                         ELSE /\ pc'[c] = "done"
                              /\ result'[c].how = "raised"
                              /\ result'[c].at = "after_loop"
                              /\ result'[c].exc.kind = FailureKind(o)
                              /\ n_transport'[c] = max_retries + 1
        /\ (pc[c] = "sleep" /\ pc'[c] # "sleep") =>
              /\ pc'[c] = "attempt"
              /\ attempt'[c] = attempt[c] + 1
              /\ last_error'[c] = last_error[c]
        /\ (pc[c] = "done" /\ result[c].how = "raised" /\ result[c].at # "input"
              /\ trace[c] # <<>> /\ \A i \in 1..Len(trace[c]) : trace[c][i].type = "timeout") =>
              /\ n_transport[c] = max_retries + 1
              /\ result[c].exc.kind = "SDKTimeoutError"]_vars

\* C7 witness: max_retries = 2 and three timeouts: three attempts were made and the
\* Timeout error is raised after the loop
C7_Witness ==
    \E c \in CallIds :
        /\ max_retries = 2
        /\ pc[c] = "done"
        /\ result[c].how = "raised"
        /\ result[c].at = "after_loop"
        /\ result[c].exc.kind = "SDKTimeoutError"
        /\ n_transport[c] = 3
        /\ trace[c] = << [type |-> "timeout", status |-> {}],
                         [type |-> "timeout", status |-> {}],
                         [type |-> "timeout", status |-> {}] >>

\* C8, as claimed: a success status whose body is no JSON ends the call at once with
\* a decode error of its own kind: no retry, no sleep, no Network, Timeout or API
\* error, and no result
C8_DecodeFailureIsTerminal ==
    [][\A c \in CallIds :
        pc[c] = "inflight" =>
            \A o \in {r \in Responses : r.status \in 200..299 /\ r.body \notin JsonBodies} :
                Receive(c, o) =>
                    /\ EndsWith(c, result'[c])
                    /\ result'[c].how = "raised"
                    /\ result'[c].exc.kind \notin
                          {"NetworkError", "SDKTimeoutError", "EmailValidatorError"}]_vars

\* the exception classes of the SDK
TypedErrors ==
    {"EmailValidatorError", "ValidationError", "AuthenticationError", "RateLimitError",
     "NetworkError", "SDKTimeoutError"}

\* C9, as claimed: whatever a call raises is an EmailValidatorError or one of its
\* subclasses
C9_OnlyTypedErrors ==
    \A c \in CallIds :
        (pc[c] = "done" /\ result[c].how = "raised") => result[c].exc.kind \in TypedErrors

(***************************************************************************)
(* Properties of input validation.                                         *)
(***************************************************************************)
\* arguments of validate that are empty, no string, or not of the shape
\* local-part@domain
RejectedEmails ==
    { PyNone, PyInt(0), PyInt(7), PyStr(<<>>),
      PyStr(<<"n", "o", "t", "-", "a", "n", "-", "e", "m", "a", "i", "l">>),
      PyStr(<<"a", "@", "b">>),
      PyStr(<<"@", "b", ".", "c">>),
      PyStr(<<"a", " ", "@", "b", ".", "c">>),
      PyStr(<<"a", "@", "b", "@", "c", ".", "d">>) }

\* the arguments among the samples that the claim covers: the ones listed above and
\* every other one that is no string or that the format check refuses
BadSampleEmails ==
    {email \in SampleEmails :
        \/ email \in RejectedEmails
        \/ email.type # "str"
        \/ ~is_valid_email_format(email.v)}

\* C10: validate of an email that is empty, no string, or fails the format check
\* raises ValidationError without a transport invocation, and leaves the session
\* as it was (the async client creates none)
C10_BadEmailIsRejected ==
    [][\A c \in CallIds :
        (Free(c) /\ pc'[c] # "idle") =>
            \/ /\ pc'[c] = "done"
               /\ result'[c].how = "raised"
               /\ result'[c].exc.kind = "ValidationError"
               /\ result'[c].exc.code = "VALIDATION_ERROR"
               /\ n_transport'[c] = 0
               /\ trace'[c] = <<>>
               /\ session' = session
               /\ closed' = closed
            \/ \A email \in BadSampleEmails : ~Validate(c, email)]_vars

\* C10 witness: the async client has rejected a string that fails the format check
\* and still has no session
C10_Witness ==
    \E c \in CallIds :
        /\ client = "async"
        /\ session = 0
        /\ pc[c] = "done"
        /\ result[c].how = "raised"
        /\ result[c].exc.kind = "ValidationError"
        /\ result[c].exc.message = "Invalid email format"
        /\ n_transport[c] = 0

(***************************************************************************)
(* Properties of the input check of validate_bulk.                         *)
(***************************************************************************)
\* arguments of validate_bulk that are empty, no list, or longer than 1000 entries
RefusedBulks ==
    { PyNone, PyInt(0), PyStr(<<>>), PyStr(<<"a", "@", "b", ".", "c">>),
      PyList(0), PyListOf(<<>>), PyList(MaxBulk + 1), PyList(2 * MaxBulk) }

\* lists of 1 to 1000 entries, some with entries that validate would refuse
AcceptedBulks ==
    {emails \in SampleBulks : emails.type = "list" /\ emails.len \in 1..MaxBulk}

\* C11: validate_bulk of an argument that is empty, no list or longer than 1000
\* entries raises ValidationError without a transport invocation and without a
\* change of the session; validate_bulk of a list of 1 to 1000 entries, whatever
\* its entries, goes on to _request (max_retries >= 0: its first attempt is due)
C11_BulkInputCheck ==
    [][\A c \in CallIds :
        (Free(c) /\ pc'[c] # "idle") =>
            /\ \/ /\ pc'[c] = "done"
                  /\ result'[c].how = "raised"
                  /\ result'[c].at = "input"
                  /\ result'[c].exc.kind = "ValidationError"
                  /\ n_transport'[c] = 0
                  /\ trace'[c] = <<>>
                  /\ session' = session
                  /\ closed' = closed
               \/ \A emails \in RefusedBulks : ~ValidateBulk(c, emails)
            /\ \/ /\ max_retries >= 0 => pc'[c] = "attempt" /\ result'[c] = Pending
                  /\ max_retries < 0 => result'[c].at = "after_loop"
                  /\ n_transport'[c] = 0
               \/ \A emails \in AcceptedBulks : ~ValidateBulk(c, emails)]_vars

\* C11 witness: a call has been refused by the input check of validate_bulk for a
\* list that is too long, and nothing was sent
C11_Witness ==
    \E c \in CallIds :
        /\ pc[c] = "done"
        /\ result[c].how = "raised"
        /\ result[c].exc.kind = "ValidationError"
        /\ result[c].exc.message = "Maximum 1000 emails per request"
        /\ n_transport[c] = 0

(***************************************************************************)
(* Properties of the format check of validate.                             *)
(***************************************************************************)
\* the shape local-part@domain: exactly one "@", a non-empty local part, no
\* whitespace character anywhere, and a "." in the domain
HasAddressShape(s) ==
    /\ Cardinality({i \in 1..Len(s) : s[i] = "@"}) = 1
    /\ \A i \in 1..Len(s) : s[i] \notin Whitespace
    /\ \E at \in 2..Len(s) :
          /\ s[at] = "@"
          /\ \E dot \in (at + 1)..Len(s) : s[dot] = "."

\* the strings among the samples that do not have the shape
ShapelessEmails ==
    {email \in SampleEmails : email.type = "str" /\ ~HasAddressShape(email.v)}

\* C12, as claimed: validate of a string that does not have the shape
\* local-part@domain (a whitespace character anywhere, a newline at the end
\* included) raises ValidationError and sends nothing.  The code accepts a string
\* of that shape followed by one newline.
C12_OnlyAddressShapeIsSent ==
    [][\A c \in CallIds :
        (Free(c) /\ pc'[c] # "idle") =>
            \/ /\ pc'[c] = "done"
               /\ result'[c].how = "raised"
               /\ result'[c].at = "input"
               /\ result'[c].exc.kind = "ValidationError"
               /\ n_transport'[c] = 0
            \/ \A email \in ShapelessEmails : ~Validate(c, email)]_vars

(***************************************************************************)
(* Properties of the backoff sleeps.                                       *)
(***************************************************************************)
\* C13: the backoff sleeps of a call lie between two consecutive attempts.  The
\* i-th sleep is the one made with attempt = i - 1; there are never more than
\* max_retries of them; while attempt k is due or asleep before the next one, as
\* many sleeps as attempts were made; while an attempt is in flight and once the
\* call is over (return, terminal raise or exhaustion), one sleep less than
\* attempts, and none when no attempt was made
C13_SleepsBetweenAttempts ==
    \A c \in CallIds :
        /\ \A i \in 1..Len(sleeps[c]) : sleeps[c][i] = i - 1
        /\ Len(sleeps[c]) <= IF max_retries > 0 THEN max_retries ELSE 0
        /\ pc[c] = "attempt" => Len(sleeps[c]) = n_transport[c] /\ attempt[c] = n_transport[c]
        /\ pc[c] = "sleep" => Len(sleeps[c]) = n_transport[c] /\ attempt[c] = n_transport[c] - 1
        /\ pc[c] = "inflight" => Len(sleeps[c]) = n_transport[c] - 1
        /\ pc[c] \in {"idle", "done"} =>
              Len(sleeps[c]) = IF n_transport[c] = 0 THEN 0 ELSE n_transport[c] - 1

\* C13 witness: a call returned at its third attempt, after two sleeps
C13_Witness ==
    \E c \in CallIds :
        /\ pc[c] = "done"
        /\ result[c].how = "returned"
        /\ n_transport[c] = 3
        /\ sleeps[c] = <<0, 1>>

SameOutcome(x, y) ==
    /\ x.ctl = y.ctl
    /\ x.ctl = "return" => x.value = y.value
    /\ x.ctl = "raise" =>
          /\ x.exc.kind = y.exc.kind
          /\ x.exc.status_code = y.exc.status_code
          /\ x.exc.retry_after = y.exc.retry_after
    /\ x.ctl = "next" =>
          /\ x.last_error.kind = y.last_error.kind
          /\ x.last_error.status_code = y.last_error.status_code

\* the client that is not `kind`, with what its json() raises on a malformed body
OtherClients(kind) ==
    IF kind = "sync"
    THEN {[client |-> "async", json_error |-> "json.JSONDecodeError"]}
    ELSE {[client |-> "sync", json_error |-> mode] :
             mode \in {"requests.JSONDecodeError", "ValueError"}}

\* C15, as claimed: whenever an attempt of a call receives an outcome, the try
\* statement of the other client ends the same way on that outcome; the loop
\* around it being the same in both, the two _request then end alike after the
\* same invocations and sleeps.  The code differs on a success response whose
\* body cannot be decoded.
C15_ClientsAgree ==
    [][\A c \in CallIds : pc[c] = "inflight" =>
          \A o \in TransportOutcomes :
              Receive(c, o) =>
                  \A other \in OtherClients(client) :
                      SameOutcome(TryStatement(client, json_error, o),
                                  TryStatement(other.client, other.json_error, o))]_vars

(***************************************************************************)
(* Properties of the session of the async client (under SpecHeaders).      *)
(***************************************************************************)
\* the session of the client is open
SessionOpen == session # 0 /\ session \notin closed

\* call slot c issues a call that passes the input check of its method
Issues(c) ==
    /\ Free(c)
    /\ EnterRequest(c)

\* C16: the async client is built without a session, and then
\*  - a request method that passes its input check leaves the client with an open
\*    session, which the call uses: the one it had when that was open, a new one
\*    when there was none or it was closed;
\*  - a new session is made only so, and carries the headers built from api_key,
\*    the same as the session before it;
\*  - close() closes the open session and nothing else does;
\*  - a request on a session that is not closed is sent, not refused
C16_SessionReopens ==
    /\ (client = "async" => session = 0 /\ closed = {})
    /\ [][client = "async" =>
            /\ \A c \in CallIds :
                  Issues(c) =>
                      /\ session' # 0 /\ session' \notin closed'
                      /\ sess'[c] = session'
                      /\ SessionOpen => session' = session
            /\ session' # session =>
                  /\ ~SessionOpen
                  /\ session' \notin closed \cup {0}
                  /\ \E c \in CallIds : Issues(c)
                  /\ headers'[session'].content_type = {"application/json"}
                  /\ headers'[session'].x_api_key = api_key \ {""}
                  /\ session # 0 => headers'[session'] = headers[session]
            /\ closed' # closed =>
                  /\ SessionOpen
                  /\ closed' = closed \cup {session}
                  /\ session' = session
            /\ \A c \in CallIds :
                  (pc[c] = "attempt" /\ sess[c] \notin closed /\ pc'[c] # "attempt") =>
                      /\ pc'[c] = "inflight"
                      /\ Len(sent'[c]) = Len(sent[c]) + 1]_vars

\* C16 witness: the async client's first session was closed, and a call made after
\* that returned on a second session, with the headers of the first
C16_Witness ==
    /\ client = "async"
    /\ closed = {1}
    /\ session = 2
    /\ headers[2] = headers[1]
    /\ \E c \in CallIds :
          /\ pc[c] = "done"
          /\ result[c].how = "returned"
          /\ Len(sent[c]) = 1
          /\ sent[c][1] = headers[2]
          /\ sent[c][1].x_api_key = {"key-1"}

C18_HeadersFixedAtIssue ==
    /\ [](\A c \in CallIds : \A i \in 1..Len(sent[c]) : sent[c][i] = issued[c])
    /\ [][/\ api_key' = api_key
          /\ \A s \in SessionIds : headers[s] # NoHeaders => headers'[s] = headers[s]
          /\ \A c \in CallIds :
                pc[c] \in {"attempt", "inflight", "sleep"} => issued'[c] = issued[c]]_vars

\* C18 witness: while one caller sleeps before its retry, the other has issued a call
\* of its own and is at its second request; the client was built with a key
C18_Witness ==
    /\ callers = CallIds
    /\ KeyGiven(api_key)
    /\ pc["c1"] = "sleep"
    /\ pc["c2"] = "inflight"
    /\ Len(sent["c1"]) = 1
    /\ Len(sent["c2"]) = 2
    /\ sent["c2"][2].x_api_key = api_key

(***************************************************************************)
(* Properties of the headers of every request (SpecHeaders).               *)
(***************************************************************************)
\* C19: every request sent by a call carries Content-Type application/json and a
\* User-Agent of the product EmailValidator-Python-SDK; it carries the key given at
\* construction as X-API-Key when that key is not empty, and no X-API-Key when no
\* key was given
C19_StandardHeaders ==
    \A c \in CallIds : \A i \in 1..Len(sent[c]) :
        /\ sent[c][i].content_type = {"application/json"}
        /\ \E agent \in sent[c][i].user_agent : agent[1] = "EmailValidator-Python-SDK"
        /\ (api_key # {} /\ api_key # {""}) => sent[c][i].x_api_key = api_key
        /\ api_key = {} => sent[c][i].x_api_key = {}

\* C19 witness: a client built with a key was closed and has reopened, and the call
\* on the new session has sent its first request and its retry
C19_Witness ==
    /\ client = "async"
    /\ api_key = {"key-1"}
    /\ session = 2
    /\ \E c \in CallIds :
          /\ pc[c] = "inflight"
          /\ sess[c] = 2
          /\ Len(sent[c]) = 2
          /\ sent[c][2].x_api_key = {"key-1"}

(***************************************************************************)
(* Properties of ValidationResult.from_dict (under SpecDecode).            *)
(***************************************************************************)
\* the blocks given to a dataclass as keyword arguments have the keys of the
\* decoder's dataclasses, or none of those blocks is in the payload
BlocksFit ==
    \/ eval.decoder = "packages" /\ eval.style = "plain"
    \/ eval.decoder = "sdk" /\ eval.style = "message"
    \/ eval.present \cap {"syntax", "domain", "mx"} = {}

\* the sub-check decoded for the block `name` is the documented default
IsDefault(decoder, checks, name) ==
    CASE name = "syntax" -> checks["syntax"].v["valid"] = JBool(FALSE)
      [] name = "domain" -> /\ checks["domain"].v["valid"] = JBool(FALSE)
                            /\ checks["domain"].v["exists"] = JBool(FALSE)
      [] name = "mx" -> /\ checks["mx"].v["valid"] = JBool(FALSE)
                        /\ checks["mx"].v["records"] = JList(<<>>)
      [] name = "disposable" -> checks["disposable"].v["is_disposable"] = JBool(FALSE)
      [] name = "roleBased" -> /\ checks["role_based"].v["is_role_based"] = JBool(FALSE)
                               /\ checks["role_based"].v["role"] = JNull
      [] name = "freeProvider" ->
            /\ checks["free_provider"].v[IF decoder = "packages" THEN "is_free_provider"
                                         ELSE "is_free"] = JBool(FALSE)
            /\ checks["free_provider"].v["provider"] = JNull
      [] name = "smtp" -> checks["smtp"] = JNull

\* C20: with the required top-level fields present and valid, from_dict of a payload
\* that lacks the checks object, or any of the blocks syntax, domain, mx, disposable,
\* roleBased, freeProvider and smtp, raises nothing; every absent block decodes to
\* its default, and an absent smtp block to None
C20_MissingBlocksDefault ==
    (eval.fn = "from_dict" /\ BlocksFit) =>
        \A out \in eval.out :
            /\ out.ok
            /\ out.value.v["email"] = JStr("a@b.c")
            /\ \A name \in BlockNames \ eval.present :
                  IsDefault(eval.decoder, out.value.v["checks"].v, name)

\* C20 witness: the packages decoder has decoded a payload whose checks object has
\* the syntax block but neither the disposable nor the smtp block
C20_Witness ==
    /\ eval.fn = "from_dict"
    /\ eval.decoder = "packages"
    /\ eval.with_checks
    /\ "syntax" \in eval.present
    /\ eval.present \cap {"disposable", "smtp"} = {}
    /\ \E out \in eval.out :
          /\ out.ok
          /\ out.value.v["checks"].v["syntax"].v["valid"] = JBool(TRUE)
          /\ out.value.v["checks"].v["smtp"] = JNull

(***************************************************************************)
(* Properties of ValidationResult.from_dict on payloads a server got wrong *)
(* (under SpecDamaged).                                                    *)
(***************************************************************************)
\* the exceptions of the language the decoders can raise; exceptions.py has no
\* class for a decode error
BuiltinExceptions == {"KeyError", "TypeError", "ValueError", "AttributeError"}

\* C21: decoding a success payload in which a required top-level field (email,
\* score, deliverability, risk) is absent or of the wrong shape, or in which
\* deliverability or risk is no member of its enum, raises a distinct decode error:
\* it yields no result, and the exception is none of the language's generic ones
C21_DamagedTopLevelIsDecodeError ==
    (eval.fn = "from_dict" /\ eval.damage.at = "top" /\ BlocksFit) =>
        \A out \in eval.out :
            /\ ~out.ok
            /\ out.exc \notin BuiltinExceptions

\* the sub-check decoded for the present, undamaged block `name` carries the
\* values of the payload
DecodedNormally(checks, name) ==
    CASE name \in KwargsBlocks -> checks[name].v["valid"] = JBool(TRUE)
      [] name = "disposable" -> checks["disposable"].v["is_disposable"] = JBool(TRUE)
      [] name = "roleBased" -> checks["role_based"].v["role"] = JStr("admin")
      [] name = "freeProvider" -> checks["free_provider"].v["provider"] = JStr("gmail")
      [] name = "smtp" -> TRUE

\* C22: a syntax, domain or mx block that is present but short of a key, or that
\* carries a key more, does not make from_dict fail: the affected sub-check is its
\* default, and the other sub-checks and the top-level fields decode normally
C22_SubChecksDecodeIndependently ==
    (eval.fn = "from_dict" /\ eval.damage.at = "block" /\ BlocksFit) =>
        \A out \in eval.out :
            /\ out.ok
            /\ out.value.v["email"] = JStr("a@b.c")
            /\ out.value.v["score"] = JInt(90)
            /\ IsDefault(eval.decoder, out.value.v["checks"].v, eval.damage.field)
            /\ \A name \in eval.present \ {eval.damage.field} :
                  DecodedNormally(out.value.v["checks"].v, name)

(***************************************************************************)
(* Properties of validate_bulk's result (under SpecBulk).                  *)
(***************************************************************************)
\* the results decoded are the entries of the response's results array, in order
SameOrder(results, entries) ==
    /\ Len(results) = Len(entries)
    /\ \A i \in 1..Len(entries) : results[i].v["score"] = entries[i].v["score"]

\* C23: a BulkValidationResult returned by validate_bulk(emails) has at most
\* len(emails) results, and they are in the order of the entries of the response's
\* results array, whatever the server returns
C23_BulkResultsBounded ==
    eval.fn = "validate_bulk" =>
        \A out \in eval.out :
            out.ok =>
                /\ Len(out.value.v["results"].v) <= eval.emails.len
                /\ SameOrder(out.value.v["results"].v, eval.data.v["results"].v)

(***************************************************************************)
(* Properties of the request body of validate (under SpecBody).            *)
(***************************************************************************)
\* the toggles that are on in the options given (none without options)
Enabled(options) == {toggle \in Toggles : \E o \in options : o[toggle]}

\* the flags that are true in a request body
TrueFlags(body) ==
    {flag \in {FlagOf(toggle) : toggle \in Toggles} :
        flag \in DOMAIN body /\ body[flag] = JBool(TRUE)}

\* C24: for every combination of the four toggles, the flags that are true in the
\* request body of validate are exactly the flags of the toggles enabled, and the
\* body's email is the email passed; with smtp_check alone the only true flag is
\* smtpCheck
C24_FlagsAreTheToggles ==
    eval.fn = "validate" =>
        \A out \in eval.out :
            out.ok =>
                /\ out.value.v["email"] = JStr(eval.email.v)
                /\ TrueFlags(out.value.v) = {FlagOf(toggle) : toggle \in Enabled(eval.options)}
                /\ Enabled(eval.options) = {"smtp_check"} =>
                        TrueFlags(out.value.v) = {"smtpCheck"}

\* C24 witness: packages/sdk-python has built the body for options with smtp_check
\* alone: smtpCheck is true in it and authCheck is false
C24_Witness ==
    /\ eval.fn = "validate"
    /\ eval.sdk = "packages"
    /\ Enabled(eval.options) = {"smtp_check"}
    /\ \E out \in eval.out :
          /\ out.ok
          /\ out.value.v["smtpCheck"] = JBool(TRUE)
          /\ out.value.v["authCheck"] = JBool(FALSE)

\* C25: when the options carry a non-empty webhook URL, the body sent by validate
\* has that URL as a string field, besides the flags
C25_WebhookIsSent ==
    eval.fn = "validate" =>
        \A out \in eval.out : \A o \in eval.options :
            (out.ok /\ o["webhook_url"].type = "str" /\ Truthy(o["webhook_url"])) =>
                \E key \in DOMAIN out.value.v :
                    /\ out.value.v[key].t = "str"
                    /\ out.value.v[key].v = o["webhook_url"].v

(***************************************************************************)
(* Properties of is_retryable_status (under SpecClassify).                 *)
(***************************************************************************)
\* C26: is_retryable_status is true for no status (None), for 408, 500, 502, 503
\* and every status of 500 and above, and false for 400, 403, 404 and 422
C26_RetryableStatuses ==
    eval.fn = "is_retryable_status" =>
        \A out \in eval.out :
            /\ eval.status_code = NoneInt => out
            /\ \A s \in eval.status_code :
                  /\ (s \in {408, 500, 502, 503} \/ s >= 500) => out
                  /\ s \in {400, 403, 404, 422} => ~out

\* C26 witness: the classifier has answered that 408 is retryable
C26_Witness ==
    /\ eval.fn = "is_retryable_status"
    /\ eval.status_code = SomeInt(408)
    /\ eval.out = {TRUE}

\* C27: the classifier marks 401 and 429 as not retryable
C27_TerminalStatusesNotRetryable ==
    eval.fn = "is_retryable_status" =>
        \A out \in eval.out :
            \A s \in eval.status_code : s \in {401, 429} => ~out

(***************************************************************************)
(* Properties of one iteration of _request (under SpecTry).                *)
(***************************************************************************)
\* response.json() of the client at hand
JsonOf(response) ==
    IF client = "sync" THEN RequestsJson(response, json_error) ELSE AiohttpJson(response)

\* an error status the loop classifies
ClassifiedStatus(o) ==
    o.type = "response" /\ ~ResponseOk(o) /\ o.status \notin {401, 429}

\* the same response with a JSON body
WithJsonBody(o) == [o EXCEPT !.body = "{json}", !.content_type = "application/json"]

\* the error an iteration raises or records
ErrorOf(done) == IF done.ctl = "raise" THEN done.exc ELSE done.last_error

InRequest(c) == pc[c] \in {"attempt", "inflight", "sleep"}

\* C29: provided each transport invocation and each backoff sleep completes, a call
\* that entered _request eventually returns a payload or raises an error, for every
\* max_retries and every sequence of transport outcomes ("c1" is the caller of
\* SpecLive)
C29_RequestTerminates ==
    InRequest("c1") ~> (pc["c1"] = "done" /\ result["c1"].how \in {"returned", "raised"})

\* C29 witness: a call has gone through every iteration of a loop with retries, each
\* followed by its sleep but the last, and has ended in the raise after the loop
C29_Witness ==
    \E c \in CallIds :
        /\ max_retries >= 1
        /\ pc[c] = "done"
        /\ n_transport[c] = max_retries + 1
        /\ Len(sleeps[c]) = max_retries
        /\ result[c].how = "raised"
        /\ result[c].at = "after_loop"

(***************************************************************************)
(* Independence of concurrent calls (under SpecConcurrent).                *)
(***************************************************************************)
\* what the try statement of a call running alone makes of the outcome seen as e
AloneTry(e) ==
    IF e = Refused THEN Raise(Foreign("RuntimeError"))
    ELSE TryStatement(client, json_error, CHOOSE o \in FewOutcomes : Seen(o) = e)

\* the error a call running alone has recorded after the outcomes t
AloneLastError(t) ==
    IF t = <<>> THEN NoError ELSE AloneTry(t[Len(t)]).last_error

\* how a call running alone ends on the outcomes t
AloneResult(t) ==
    IF t = <<>> THEN Raised(AfterLoop(NoError), "after_loop")
    ELSE LET done == AloneTry(t[Len(t)])
         IN  CASE done.ctl = "return" -> Returned(done.value)
               [] done.ctl = "raise" -> Raised(done.exc, "try")
               [] done.ctl = "next" -> Raised(AfterLoop(done.last_error), "after_loop")

\* C30: under every interleaving of the attempts and sleeps of concurrent calls on
\* one client, the attempt count, the recorded last error and the final outcome of
\* each call are those of the call running alone on its own sequence of transport
\* outcomes: they are determined by that sequence, and the error a call raises is
\* the one it recorded itself
C30_CallsIndependent ==
    \A c \in CallIds :
        LET t == trace[c]
        IN  /\ pc[c] \in {"attempt", "inflight"} =>
                  /\ attempt[c] = Len(t)
                  /\ n_transport[c] = Len(t) + (IF pc[c] = "inflight" THEN 1 ELSE 0)
                  /\ last_error[c] = AloneLastError(t)
                  /\ result[c] = Pending
            /\ pc[c] = "sleep" =>
                  /\ attempt[c] = Len(t) - 1
                  /\ n_transport[c] = Len(t)
                  /\ last_error[c] = AloneLastError(t)
            /\ RequestOver(c) =>
                  /\ n_transport[c] = Len(t)
                  /\ result[c] = AloneResult(t)

\* C30 witness: one call has raised the API error of the 500 it saw twice, while the
\* other, after a timeout, sleeps before its retry with its own SDKTimeoutError
C30_Witness ==
    /\ pc["c1"] = "done"
    /\ result["c1"].how = "raised"
    /\ result["c1"].at = "after_loop"
    /\ result["c1"].exc.kind = "EmailValidatorError"
    /\ pc["c2"] = "sleep"
    /\ last_error["c2"] = SDKTimeoutError

(***************************************************************************)
(* The configuration of a client (under SpecConfig).                       *)
(***************************************************************************)
\* C31: validate, validate_bulk, health_check, close and the exit of a with block,
\* whether they succeed or fail, leave base_url (the argument without its trailing
\* slashes), api_key, timeout, max_retries and retry_delay as the constructor set
\* them
C31_ConfigurationFixed ==
    /\ settings.base_url = RStrip(settings.given)
    /\ [][ /\ settings' = settings
           /\ api_key' = api_key
           /\ max_retries' = max_retries ]_vars

\* C31 witness: on a client built with a base_url ending in slashes, a call has
\* failed after its retry, a later call is on its way and close() has been called
C31_Witness ==
    /\ settings.given = <<"h", "/", "p", "/", "/">>
    /\ settings.base_url = <<"h", "/", "p">>
    /\ max_retries = 1
    /\ closed # {}
    /\ pc["c1"] = "inflight"
    /\ n_transport["c1"] = 2

(***************************************************************************)
(* The session of a call in the async client (under SpecConcurrent).       *)
(***************************************************************************)
\* C32: in the async client a call reads the session once, before its first
\* attempt, and every attempt uses that session object: a call in _request keeps its
\* session whatever close() and the other caller do; an attempt made after the
\* session was closed is issued on the closed session (which refuses it) and opens
\* no session; the client's session is replaced only when a call starts
C32_SessionReadOnce ==
    [][client = "async" =>
          /\ \A c \in CallIds :
                /\ (InRequest(c) /\ pc'[c] \in {"attempt", "inflight", "sleep"}) =>
                        sess'[c] = sess[c]
                /\ (pc[c] = "attempt" /\ sess[c] \in closed /\ pc'[c] # "attempt") =>
                        /\ session' = session
                        /\ closed' = closed
                        /\ pc'[c] = "done"
                        /\ trace'[c] = Append(trace[c], Refused)
                        /\ result'[c] = Raised(Foreign("RuntimeError"), "try")
          /\ session' # session => \E d \in CallIds : Issues(d)]_vars

\* C32 witness: the session of a call was closed after its first attempt, its retry
\* was refused on that session, and the other caller, started later, is on a new one
C32_Witness ==
    /\ client = "async"
    /\ closed = {1}
    /\ session = 2
    /\ pc["c1"] = "done"
    /\ Len(trace["c1"]) = 2
    /\ trace["c1"][2] = Refused
    /\ pc["c2"] = "inflight"
    /\ sess["c2"] = 2

\* C33: in the async client, of the calls issued concurrently on a client whose
\* session is unopened or closed, the first makes exactly one new session and the
\* others use it: a call that starts while the session is open makes none, every
\* call in progress whose session is open is on the client's session, and every
\* session object but the client's current one has been closed (none is orphaned)
C33_OneSessionForAll ==
    /\ [](client = "async" =>
            /\ \A s \in 1..(session - 1) : s \in closed
            /\ \A c \in CallIds :
                  (InRequest(c) /\ sess[c] \notin closed) => sess[c] = session)
    /\ [][client = "async" =>
            \A c \in CallIds :
                Issues(c) =>
                    /\ session' = IF SessionOpen THEN session ELSE session + 1
                    /\ sess'[c] = session'
                    /\ closed' = closed]_vars

\* C33 witness: after the first session was closed both callers have issued a call,
\* and both are in flight on the one session made since
C33_Witness ==
    /\ client = "async"
    /\ closed = {1}
    /\ session = 2
    /\ pc["c1"] = "inflight" /\ sess["c1"] = 2
    /\ pc["c2"] = "inflight" /\ sess["c2"] = 2

(***************************************************************************)
(* The error raised after the loop (under Spec).                           *)
(***************************************************************************)
\* the error of `raise last_error or NetworkError("Request failed after retries")`
\* when nothing was recorded
GenericFallback == NetworkError("Request failed after retries")

\* C34: when the loop of _request ends after at least one attempt without returning
\* or raising, a last error has been recorded: an iteration that moves on has
\* recorded one, and the generic NetworkError("Request failed after retries") is
\* raised only when no attempt was made, that is only for max_retries < 0, with no
\* transport invocation
C34_FallbackOnlyWithoutAttempts ==
    \A c \in CallIds :
        /\ (pc[c] \in {"attempt", "inflight", "sleep"} /\ Len(trace[c]) >= 1) =>
                last_error[c] # NoError
        /\ (pc[c] = "done" /\ result[c].how = "raised" /\ result[c].at = "after_loop") =>
                /\ result[c].exc = GenericFallback <=> max_retries < 0
                /\ result[c].exc = GenericFallback <=> n_transport[c] = 0
                /\ n_transport[c] >= 1 => n_transport[c] = max_retries + 1
        /\ (pc[c] = "done" /\ result[c].how = "raised" /\ result[c].exc = GenericFallback) =>
                result[c].at = "after_loop"

\* C34 witness: a client built with max_retries = -1 has raised the generic error
\* without invoking the transport
C34_Witness ==
    /\ max_retries = -1
    /\ pc["c1"] = "done"
    /\ result["c1"] = Raised(GenericFallback, "after_loop")
    /\ n_transport["c1"] = 0

(***************************************************************************)
(* Statuses below 400 (under SpecTry).                                     *)
(***************************************************************************)
\* C35: every response with a status below 400, a 304 as well as a 200, is a
\* success: its body is decoded as JSON and returned at once, nothing is classified
\* or recorded and the loop does not move on; only a status of 400 and above enters
\* the error path
C35_Below400IsSuccess ==
    (eval.fn = "try" /\ eval.o.type = "response") =>
        \A out \in eval.out :
            IF eval.o.status < 400
            THEN out = Return(Parsed(eval.o.body))
            ELSE out.ctl \in {"raise", "next"}

(***************************************************************************)
(* The sub-checks made on request (under SpecOptional).                    *)
(***************************************************************************)
\* C36: the decoder of packages/sdk-python yields typo, smtp, authentication,
\* reputation and gravatar equal to None for every payload, those that hold these
\* blocks included: what the blocks hold never reaches the caller
C36_OptionalChecksAreNone ==
    (eval.fn = "from_dict" /\ eval.decoder = "packages") =>
        \A out \in eval.out :
            /\ out.ok
            /\ \A name \in OptionalBlocks : out.value.v["checks"].v[name].t = "null"

\* C36 witness: the packages decoder has decoded a payload that holds the smtp, the
\* typo and the gravatar block, and the result has None for each
C36_Witness ==
    /\ eval.fn = "from_dict"
    /\ eval.decoder = "packages"
    /\ {"smtp", "typo", "gravatar"} \subseteq DOMAIN eval.data.v["checks"].v
    /\ \E out \in eval.out :
          /\ out.ok
          /\ out.value.v["checks"].v["smtp"].t = "null"
          /\ out.value.v["checks"].v["typo"].t = "null"
          /\ out.value.v["checks"].v["gravatar"].t = "null"

====
